---- MODULE Spec2Model ----
(***************************************************************************)
(* A model of the VideoSummary repository's core algorithms:               *)
(*   - VideoSummaryApp._split_subtitles_into_chunks  (TextChunker)         *)
(*   - get_longest_overlap, parse_srt_robust and the deduplication loop    *)
(*     of remove_duplicates_from_srt / process_srt (SubtitleDeduplicator)  *)
(*   - TimeRangeExtractor.extract_frames_in_range    (FrameSampler)        *)
(*   - VideoSummaryApp._allocate_frame_counts        (ChunkFrameAllocator) *)
(* Each component has its own variables and its own specification; the     *)
(* variables of the other components stay at their idle values.            *)
(* Python indices are 0-based: At(a, i) reads a[i] of a Python list that    *)
(* is held as a 1-based TLA+ sequence.                                      *)
(***************************************************************************)
EXTENDS Integers, Sequences, FiniteSets, TLC

VARIABLES
    \* ---- _split_subtitles_into_chunks
    subtitle_data,      \* per entry: len(token_pattern.findall(entry['text']))
    chunk_size,
    overlap,
    cumulative,         \* the prefix sums, cumulative[0] = 0
    chunks,             \* the list returned: records start_index, end_index
    start_idx,
    ck_iters,           \* executions of the while body so far
    ck_pc,              \* "idle" | "call" | "loop" | "done"
    \* ---- get_longest_overlap
    s1,
    s2,
    overlap_len,        \* the value returned
    ov_pc,              \* "idle" | "call" | "done"
    \* ---- remove_duplicates_from_srt / process_srt
    dd_input,           \* the texts of the blocks the input file was written from
    file_lines,         \* the subtitle file, one string per line
    blocks,
    final_blocks,
    prev_text,
    dd_next,            \* index of the block the for loop takes next
    dd_pass,            \* 1: the run on the file; 2: the run on the first run's output
    first_output,       \* final_blocks of the first run
    dd_pc,              \* "idle" | "call" | "loop" | "done" | "failed"
    \* ---- _allocate_frame_counts
    sections,           \* per section: _count_words(section)
    total_frames,
    weights,
    total_weight,
    allocations,
    remainders,         \* per section: the float exact - alloc, see FloatRemainder
    order,
    remaining,
    al_idx,             \* idx of the distribution loop
    al_pc,              \* "idle" | "call" | "give" | "done"
    \* ---- extract_frames_in_range
    fr_opened,          \* cap.isOpened()
    fps,                \* cap.get(CAP_PROP_FPS), frames per second
    start_ticks,        \* start_time, in ticks of 1 / TicksPerSecond s
    end_ticks,          \* end_time, in ticks
    interval_ticks,     \* interval, in ticks
    skip_similar,
    start_frame,
    end_frame,
    frame_interval,
    frame_count,
    extracted_files,    \* one record per save_frame call that wrote a file
    skipped_similar,
    last_saved_frame,   \* index of the frame kept as reference, or None
    last_saved_time,    \* its time in units of 1 / (TicksPerSecond * fps) s, or None
    judged,             \* the decision taken on the last strided frame (adaptive mode)
    read_failed,        \* cap.read() returned ret = False
    fr_error,           \* the exception raised, if any
    fr_pc,              \* "idle" | "call" | "loop" | "returned" | "raised"
    \* ---- _deduplicate_frame_paths
    frame_paths,        \* the input list of paths
    disk,               \* per path name: the file's state, see FileStates
    deduped,
    reference_images,
    fd_next,            \* 1-based position of the for loop in frame_paths
    fd_last,            \* what happened to the last path looked at
    fd_pc,              \* "idle" | "call" | "loop" | "done"
    \* ---- parse_subtitles, parse_srt_robust on one subtitle file
    file_content,       \* the characters of the subtitle file
    subtitle_entries,   \* subtitle_data returned by parse_subtitles
    consolidated_text,  \* the second value returned by parse_subtitles
    robust_blocks,      \* the blocks returned by parse_srt_robust
    ps_pc,              \* parse_subtitles: "idle" | "call" | "done"
    pr_pc,              \* parse_srt_robust: "idle" | "call" | "done"
    \* ---- process_video: summary and frame extraction in two workers
    text_only,
    pv_chunks,          \* len(chunks)
    summary_future,     \* the task _generate_summary_with_chunks: state and next chunk
    frames_future,      \* the task _extract_frames_for_chunks: state and next chunk
    pv_writers,         \* per object: the threads that have written it
    pv_overlap,         \* both tasks have made a step while the other was running
    pv_assembly,        \* the states of both tasks when _generate_final_markdown started
    pv_pc,              \* the main thread, see PvMainSteps
    \* ---- _generate_final_markdown: the frames of one part, by section
    part_sections,      \* the word counts of the sections of the part
    frames_for_chunk,
    part_allocations,   \* allocations
    frame_cursor,
    section_idx,        \* 1-based
    frame_blocks,       \* the calls of _write_frame_block: section and frames
    inserted_by_section,
    fm_pc,
    \* ---- _generate_summary_with_chunks: the attempts per chunk
    test_mode,
    client_ready,       \* the API key is set and the client could be made
    total_chunks,       \* len(chunks)
    current_idx,
    attempt,
    summaries,          \* per summary: the chunk it is the summary of
    llm_calls,          \* the calls of generate_chunk_summary so far
    summary_file,       \* the summaries written to summary_path, None before
    sm_error,
    sm_pc,
    \* ---- srt_remove_dup.main: the files of the input directory
    input_dir,          \* per file name: the file, or NoFile
    input_before,       \* input_dir when main was called
    glob_files,         \* what is left of the list the last glob returned
    sb_pc

overlapVars == <<s1, s2, overlap_len, ov_pc>>

frameVars == <<fr_opened, fps, start_ticks, end_ticks, interval_ticks, skip_similar,
               start_frame, end_frame, frame_interval, frame_count,
               extracted_files, skipped_similar, last_saved_frame,
               last_saved_time, judged, read_failed, fr_error, fr_pc>>

allocVars == <<sections, total_frames, weights, total_weight, allocations,
               remainders, order, remaining, al_idx, al_pc>>

dedupVars == <<dd_input, file_lines, blocks, final_blocks, prev_text, dd_next,
               dd_pass, first_output, dd_pc>>

chunkVars == <<subtitle_data, chunk_size, overlap, cumulative, chunks,
               start_idx, ck_iters, ck_pc>>

frameDedupVars == <<frame_paths, disk, deduped, reference_images, fd_next, fd_last,
                    fd_pc>>

subtitleParserVars == <<file_content, subtitle_entries, consolidated_text, robust_blocks,
                 ps_pc, pr_pc>>

processVideoVars == <<text_only, pv_chunks, summary_future, frames_future,
                     pv_writers, pv_overlap, pv_assembly, pv_pc>>

assembleVars == <<part_sections, frames_for_chunk, part_allocations, frame_cursor,
                      section_idx, frame_blocks, inserted_by_section, fm_pc>>

summarizeVars == <<test_mode, client_ready, total_chunks, current_idx, attempt,
                       summaries, llm_calls, summary_file, sm_error, sm_pc>>

srtBatchVars == <<input_dir, input_before, glob_files, sb_pc>>

\* What each component leaves alone.
notChunkVars == <<overlapVars, dedupVars, allocVars, frameVars, frameDedupVars, subtitleParserVars, processVideoVars, assembleVars, summarizeVars, srtBatchVars>>
notOverlapVars == <<chunkVars, dedupVars, allocVars, frameVars, frameDedupVars, subtitleParserVars, processVideoVars, assembleVars, summarizeVars, srtBatchVars>>
notDedupVars == <<chunkVars, overlapVars, allocVars, frameVars, frameDedupVars, subtitleParserVars, processVideoVars, assembleVars, summarizeVars, srtBatchVars>>
notAllocVars == <<chunkVars, overlapVars, dedupVars, frameVars, frameDedupVars, subtitleParserVars, processVideoVars, assembleVars, summarizeVars, srtBatchVars>>
notFrameVars == <<chunkVars, overlapVars, dedupVars, allocVars, frameDedupVars, subtitleParserVars, processVideoVars, assembleVars, summarizeVars, srtBatchVars>>
notSrtBatchVars == <<chunkVars, overlapVars, dedupVars, allocVars, frameVars, frameDedupVars, subtitleParserVars, processVideoVars, assembleVars, summarizeVars>>
notSummarizeVars == <<chunkVars, overlapVars, dedupVars, allocVars, frameVars, frameDedupVars, subtitleParserVars, processVideoVars, assembleVars, srtBatchVars>>
notAssembleVars == <<chunkVars, overlapVars, dedupVars, allocVars, frameVars, frameDedupVars, subtitleParserVars, processVideoVars, summarizeVars, srtBatchVars>>
notProcessVideoVars == <<chunkVars, overlapVars, dedupVars, allocVars, frameVars, frameDedupVars, subtitleParserVars, assembleVars, summarizeVars, srtBatchVars>>
notSubtitleParserVars == <<chunkVars, overlapVars, dedupVars, allocVars, frameVars, frameDedupVars, processVideoVars, assembleVars, summarizeVars, srtBatchVars>>
notFrameDedupVars == <<chunkVars, overlapVars, dedupVars, allocVars, frameVars, subtitleParserVars, processVideoVars, assembleVars, summarizeVars, srtBatchVars>>

vars == <<chunkVars, overlapVars, dedupVars, allocVars, frameVars, frameDedupVars, subtitleParserVars, processVideoVars, assembleVars, summarizeVars, srtBatchVars>>

\* ------------------------------------------------------------------ bounds

MaxChunkEntries == 4    \* entries of subtitle_data
MaxEntryTokens == 2     \* tokens found in one entry's text (0 = none)
MaxChunkSize == 4       \* chunk_size
MaxOverlapLen == 6      \* characters of s1, s2 drawn for get_longest_overlap
MaxBlocks == 3          \* blocks of the subtitle file given to the deduplicator
MaxSections == 3        \* sections given to _allocate_frame_counts
MaxSectionWords == 10   \* _count_words of one section
MaxAllocFrames == 7     \* total_frames given to _allocate_frame_counts
MaxFpsLog2 == 1         \* frame rates 1, 2, .. 2^MaxFpsLog2 frames per second (and 0)
MaxStartTicks == 1      \* start_time of a sampling window, in ticks
MaxWindowTicks == 10    \* end_time - start_time, in ticks
MaxIntervalTicks == 4   \* interval (the stride), in ticks
MaxFramePaths == 3      \* paths given to _deduplicate_frame_paths
MaxSubtitleLines == 4   \* lines of the subtitle file given to the parsers
MaxVideoChunks == 2     \* chunks handed to the two tasks of process_video
MaxPartSections == 3    \* sections of one part of the summary
MaxPartWords == 3       \* words of one such section
MaxPartFrames == 4      \* frames of one chunk
MaxSummaryChunks == 2   \* chunks given to _generate_summary_with_chunks
MaxSrtStems == 1        \* subtitle files with a plain name in the input directory

\* ----------------------------------------------------------------- helpers

Max(a, b) == IF a >= b THEN a ELSE b
Min(a, b) == IF a <= b THEN a ELSE b
At(a, i) == a[i + 1]
SeqsUpTo(S, n) == UNION {[1..k -> S] : k \in 0..n}

\* ======================================================== TextChunker =====

\* bisect.bisect_left(a, x, lo, hi): the binary search of the standard library.
RECURSIVE bisect_left(_, _, _, _)
bisect_left(a, x, lo, hi) ==
    IF lo < hi
    THEN LET mid == (lo + hi) \div 2
         IN  IF At(a, mid) < x
             THEN bisect_left(a, x, mid + 1, hi)
             ELSE bisect_left(a, x, lo, mid)
    ELSE lo

\* entry_token_counts: max(1, len(tokens)) per entry.
entry_token_counts(data) == [i \in DOMAIN data |-> Max(1, data[i])]

\* cumulative = [0]; for count in entry_token_counts: append(cumulative[-1] + count)
RECURSIVE build_cumulative(_, _, _)
build_cumulative(counts, i, acc) ==
    IF i > Len(counts) THEN acc
    ELSE build_cumulative(counts, i + 1, Append(acc, acc[Len(acc)] + counts[i]))

\* A mutant of chunk_end_idx: the clamp to total_entries is left out.
chunk_end_idx_noclamp(cum, start, size, total) ==
    LET target_tokens == At(cum, start) + size
        e == bisect_left(cum, target_tokens, start + 1, Len(cum))
    IN  IF e <= start THEN start + 1 ELSE e

\* end_idx of the chunk that starts at start (the search and the two clamps).
chunk_end_idx(cum, start, size, total) ==
    LET start_tokens == At(cum, start)
        target_tokens == start_tokens + size
        e0 == bisect_left(cum, target_tokens, start + 1, Len(cum))
        e1 == IF e0 <= start THEN start + 1 ELSE e0
    IN  IF e1 > total THEN total ELSE e1

\* A mutant of next_start_idx: the overlap is taken back from the chunk's
\* start instead of its end.
next_start_idx_from_start(cum, start, end, ov) ==
    LET next_tokens == Max(0, At(cum, start) - ov)
    IN  bisect_left(cum, next_tokens, 0, Len(cum))

\* A mutant of next_start_idx: the whole chunk budget is taken back.
next_start_idx_full_back(cum, start, end, ov) ==
    LET next_tokens == Max(0, At(cum, end) - (At(cum, end) - At(cum, start)))
    IN  bisect_left(cum, next_tokens, 0, Len(cum))

\* A mutant of next_start_idx: twice the overlap is taken back.
next_start_idx_double(cum, start, end, ov) ==
    LET next_tokens == Max(0, At(cum, end) - 2 * ov)
    IN  bisect_left(cum, next_tokens, 0, Len(cum))

\* start_idx of the next chunk, before the forward-progress correction.
next_start_idx(cum, start, end, ov) ==
    LET next_tokens == Max(0, At(cum, end) - ov)
    IN  bisect_left(cum, next_tokens, 0, Len(cum))

ChunkInputs ==
    /\ subtitle_data \in SeqsUpTo(0..MaxEntryTokens, MaxChunkEntries)
    /\ chunk_size \in 1..MaxChunkSize
    /\ overlap \in 0..(chunk_size - 1)

ChunkIdle ==
    /\ subtitle_data = <<>>
    /\ chunk_size = 1
    /\ overlap = 0
    /\ cumulative = <<0>>
    /\ chunks = <<>>
    /\ start_idx = 0
    /\ ck_iters = 0
    /\ ck_pc = "idle"

ChunkInit ==
    /\ ChunkInputs
    /\ cumulative = <<0>>
    /\ chunks = <<>>
    /\ start_idx = 0
    /\ ck_iters = 0
    /\ ck_pc = "call"

total_entries == Len(subtitle_data)

\* The function's entry: the empty-input return, the prefix sums,
\* start_idx = 0.
SplitBegin ==
    /\ ck_pc = "call"
    /\ IF subtitle_data = <<>>
       THEN /\ ck_pc' = "done"
            /\ cumulative' = cumulative
       ELSE /\ ck_pc' = "loop"
            /\ cumulative' = build_cumulative(entry_token_counts(subtitle_data),
                                              1, <<0>>)
    /\ UNCHANGED <<subtitle_data, chunk_size, overlap, chunks, start_idx, ck_iters>>
    /\ UNCHANGED notChunkVars

\* One execution of the while body.  The guard on ck_iters caps the counter
\* (it never binds: the body runs at most total_entries times).
SplitLoop ==
    /\ ck_pc = "loop"
    /\ start_idx < total_entries
    /\ ck_iters <= total_entries
    /\ LET end_idx == chunk_end_idx(cumulative, start_idx, chunk_size, total_entries)
           s == next_start_idx(cumulative, start_idx, end_idx, overlap)
       IN  /\ chunks' = Append(chunks, [start_index |-> start_idx,
                                         end_index |-> end_idx])
           /\ ck_iters' = ck_iters + 1
           /\ IF end_idx >= total_entries
              THEN ck_pc' = "done" /\ start_idx' = start_idx
              ELSE IF s >= total_entries
                   THEN ck_pc' = "done" /\ start_idx' = s
                   ELSE /\ ck_pc' = "loop"
                        /\ start_idx' = IF s = end_idx THEN s + 1 ELSE s
    /\ UNCHANGED <<subtitle_data, chunk_size, overlap, cumulative>>
    /\ UNCHANGED notChunkVars

\* The while condition fails: return chunks.
SplitExit ==
    /\ ck_pc = "loop"
    /\ ~(start_idx < total_entries)
    /\ ck_pc' = "done"
    /\ UNCHANGED <<subtitle_data, chunk_size, overlap, cumulative, chunks,
                   start_idx, ck_iters>>
    /\ UNCHANGED notChunkVars

ChunkNext == SplitBegin \/ SplitLoop \/ SplitExit

\* ===================================================== strings ==========
\* A Python str is a sequence of one-character strings.

Digits == {"0", "1", "2", "3", "4", "5", "6", "7", "8", "9"}
Whitespace == {" ", "\n"}

Digit(n) == <<"0", "1", "2", "3", "4", "5", "6", "7", "8", "9">>[n + 1]

\* str(n) for n >= 0
RECURSIVE DecStr(_)
DecStr(n) == IF n < 10 THEN <<Digit(n)>> ELSE DecStr(n \div 10) \o <<Digit(n % 10)>>

\* s[:n] and s[n:]
Prefix(s, n) == SubSeq(s, 1, Min(n, Len(s)))
Drop(s, n) == SubSeq(s, n + 1, Len(s))

\* s.endswith(t)
endswith(s, t) ==
    /\ Len(t) <= Len(s)
    /\ SubSeq(s, Len(s) - Len(t) + 1, Len(s)) = t

\* t in s
Contains(s, t) ==
    \E i \in 1..(Len(s) - Len(t) + 1) : SubSeq(s, i, i + Len(t) - 1) = t

\* s.isdigit()
isdigit(s) == s /= <<>> /\ \A i \in DOMAIN s : s[i] \in Digits

RECURSIVE lstrip(_)
lstrip(s) == IF s /= <<>> /\ Head(s) \in Whitespace THEN lstrip(Tail(s)) ELSE s

RECURSIVE rstrip(_)
rstrip(s) ==
    IF s /= <<>> /\ s[Len(s)] \in Whitespace
    THEN rstrip(SubSeq(s, 1, Len(s) - 1))
    ELSE s

\* s.strip()
strip(s) == rstrip(lstrip(s))

\* " ".join(parts)
RECURSIVE join_space(_)
join_space(parts) ==
    IF parts = <<>> THEN <<>>
    ELSE IF Len(parts) = 1 THEN parts[1]
    ELSE parts[1] \o <<" ">> \o join_space(Tail(parts))

\* ============================================= get_longest_overlap ========

min_overlap == 4

\* for length in range(hi, lo - 1, -1): if s1.endswith(s2[:length]): return length
RECURSIVE overlap_scan(_, _, _, _)
overlap_scan(a, b, length, lo) ==
    IF length < lo THEN 0
    ELSE IF endswith(a, Prefix(b, length)) THEN length
    ELSE overlap_scan(a, b, length - 1, lo)

\* A mutant of get_longest_overlap: the scan goes down to length 1.
get_longest_overlap_to_one(a, b) ==
    IF a = <<>> \/ b = <<>> THEN 0
    ELSE overlap_scan(a, b, Min(Len(a), Len(b)), 1)

\* A mutant of get_longest_overlap: the scan goes upward and returns the
\* first (shortest) match.
get_longest_overlap_shortest(a, b) ==
    IF a = <<>> \/ b = <<>> THEN 0
    ELSE LET hits == {n \in min_overlap..Min(Len(a), Len(b)) :
                          endswith(a, Prefix(b, n))}
         IN  IF hits = {} THEN 0 ELSE CHOOSE n \in hits : \A m \in hits : n <= m

get_longest_overlap(a, b) ==
    IF a = <<>> \/ b = <<>> THEN 0
    ELSE LET max_possible == Min(Len(a), Len(b))
         IN  overlap_scan(a, b, max_possible, min_overlap)

\* Inputs: every string over {a, b} up to MaxOverlapLen, and the strings of the
\* documented examples.
Str_abcdef == <<"a", "b", "c", "d", "e", "f">>
Str_defghi == <<"d", "e", "f", "g", "h", "i">>
Str_abc == <<"a", "b", "c">>
Str_xyz == <<"x", "y", "z">>

OverlapStrings ==
    SeqsUpTo({"a", "b"}, MaxOverlapLen)
        \cup {Str_abcdef, Str_defghi, Str_abc, Str_xyz}

OverlapIdle ==
    /\ s1 = <<>>
    /\ s2 = <<>>
    /\ overlap_len = 0
    /\ ov_pc = "idle"

OverlapInit ==
    /\ s1 \in OverlapStrings
    /\ s2 \in OverlapStrings
    /\ overlap_len = 0
    /\ ov_pc = "call"

OverlapCall ==
    /\ ov_pc = "call"
    /\ overlap_len' = get_longest_overlap(s1, s2)
    /\ ov_pc' = "done"
    /\ UNCHANGED <<s1, s2>>
    /\ UNCHANGED notOverlapVars

OverlapNext == OverlapCall

\* ======================================== SubtitleDeduplicator ===========

Arrow == <<"-", "-", ">">>

\* is_timecode(line): "-->" in line and line[0].isdigit()
is_timecode(line) == Contains(line, Arrow) /\ line[1] \in Digits

\* current_block = {"seq": None, "time": None, "text_lines": []}; None is <<>>.
EmptyBlock == [seq |-> <<>>, time |-> <<>>, text_lines |-> <<>>]

\* The while loop of parse_srt_robust from line i (0-based), and the final
\* "save the last block".
RECURSIVE parse_lines(_, _, _, _)
parse_lines(lines, i, done, current_block) ==
    IF i >= Len(lines)
    THEN IF current_block.time /= <<>> THEN Append(done, current_block) ELSE done
    ELSE LET line == strip(At(lines, i))
         IN  IF is_timecode(line)
             THEN LET saved == IF current_block.time /= <<>>
                               THEN Append(done, current_block)
                               ELSE done
                      seq == IF i > 0 /\ isdigit(strip(At(lines, i - 1)))
                             THEN strip(At(lines, i - 1))
                             ELSE <<"0">>
                  IN  parse_lines(lines, i + 1, saved,
                                  [seq |-> seq, time |-> line, text_lines |-> <<>>])
             ELSE IF line /= <<>> /\ ~isdigit(line)
             THEN LET is_next_line_time ==
                          /\ i + 1 < Len(lines)
                          /\ is_timecode(strip(At(lines, i + 1)))
                  IN  IF ~is_next_line_time /\ current_block.time /= <<>>
                      THEN parse_lines(lines, i + 1, done,
                               [current_block EXCEPT
                                   !.text_lines = Append(@, line)])
                      ELSE parse_lines(lines, i + 1, done, current_block)
             ELSE parse_lines(lines, i + 1, done, current_block)

\* A mutant of parse_srt_robust: a text line is appended without looking at
\* the line that follows it.
RECURSIVE parse_lines_no_lookahead(_, _, _, _)
parse_lines_no_lookahead(lines, i, done, current_block) ==
    IF i >= Len(lines)
    THEN IF current_block.time /= <<>> THEN Append(done, current_block) ELSE done
    ELSE LET line == strip(At(lines, i))
         IN  IF is_timecode(line)
             THEN LET saved == IF current_block.time /= <<>>
                               THEN Append(done, current_block)
                               ELSE done
                      seq == IF i > 0 /\ isdigit(strip(At(lines, i - 1)))
                             THEN strip(At(lines, i - 1))
                             ELSE <<"0">>
                  IN  parse_lines_no_lookahead(lines, i + 1, saved,
                          [seq |-> seq, time |-> line, text_lines |-> <<>>])
             ELSE IF line /= <<>> /\ ~isdigit(line) /\ current_block.time /= <<>>
             THEN parse_lines_no_lookahead(lines, i + 1, done,
                      [current_block EXCEPT !.text_lines = Append(@, line)])
             ELSE parse_lines_no_lookahead(lines, i + 1, done, current_block)

parse_srt_robust_no_lookahead(lines) ==
    parse_lines_no_lookahead(lines, 0, <<>>, EmptyBlock)

\* A mutant of parse_srt_robust: the last block is saved without the test
\* of current_block["time"].
parse_srt_robust_saves_unopened(lines) ==
    LET found == parse_lines(lines, 0, <<>>, EmptyBlock)
    IN  IF found = <<>> THEN <<EmptyBlock>> ELSE found

parse_srt_robust(lines) == parse_lines(lines, 0, <<>>, EmptyBlock)

\* A mutant of retained_text: the text that is left is not trimmed.
retained_text_untrimmed(prev, current_text_raw) ==
    LET n == get_longest_overlap(prev, current_text_raw)
    IN  IF n > 0 THEN Drop(current_text_raw, n) ELSE current_text_raw

\* A mutant of retained_text: the overlap is removed from both ends of the
\* comparison the wrong way round (suffix of the current text against the
\* previous text's prefix).
retained_text_swapped(prev, current_text_raw) ==
    LET n == get_longest_overlap(current_text_raw, prev)
    IN  IF n > 0 THEN strip(Drop(current_text_raw, n)) ELSE current_text_raw

\* new_text of one loop iteration after the first kept entry.
retained_text(prev, current_text_raw) ==
    LET n == get_longest_overlap(prev, current_text_raw)
    IN  IF n > 0 THEN strip(Drop(current_text_raw, n)) ELSE current_text_raw

\* A mutant of kept_prev_text: prev_text is set to the raw text of the entry.
kept_prev_text_raw(current_text_raw, new_text) == current_text_raw

\* prev_text = new_text, after final_blocks.append((block["time"], new_text)).
kept_prev_text(current_text_raw, new_text) == new_text

\* if new_text and len(new_text) > 1
keeps_text(new_text) == new_text /= <<>> /\ Len(new_text) > 1

\* A mutant of written_lines: the text is written before the time.
RECURSIVE written_lines_text_first(_, _)
written_lines_text_first(final, index) ==
    IF index > Len(final) THEN <<>>
    ELSE <<DecStr(index), final[index].text, final[index].time, <<>>>>
             \o written_lines_text_first(final, index + 1)

\* The lines written for final_blocks: f"{index}\n{time}\n{text}\n\n".
RECURSIVE written_lines(_, _)
written_lines(final, index) ==
    IF index > Len(final) THEN <<>>
    ELSE <<DecStr(index), final[index].time, final[index].text, <<>>>>
             \o written_lines(final, index + 1)

\* ---- inputs: files of well-formed blocks (number, timestamp line, one text
\* line, blank line).  Texts are a head followed by a tail.

Word_hello == <<"h", "e", "l", "l", "o", " ">>
Word_world == <<"w", "o", "r", "l", "d">>
Word_peace == <<" ", "p", "e", "a", "c", "e">>
Word_2024 == <<"2", "0", "2", "4">>
Word_bang == <<"!">>

DedupTexts ==
    {h \o t : h \in {<<>>, Word_hello, Word_world},
              t \in {<<>>, Word_world, Word_peace, Word_bang}}
        \cup {Word_2024, Word_2024 \o Word_world}

\* "00:00:0a,000 --> 00:00:0b,000"
Stamp(a) == <<"0", "0", ":", "0", "0", ":", "0", Digit(a), ",", "0", "0", "0">>
TimeLine(k) == Stamp((2 * k - 2) % 10) \o <<" ">> \o Arrow \o <<" ">> \o Stamp((2 * k) % 10)

RECURSIVE InputFile(_, _)
InputFile(texts, k) ==
    IF k > Len(texts) THEN <<>>
    ELSE <<DecStr(k), TimeLine(k), texts[k], <<>>>> \o InputFile(texts, k + 1)

DedupIdle ==
    /\ dd_input = <<>>
    /\ file_lines = <<>>
    /\ blocks = <<>>
    /\ final_blocks = <<>>
    /\ prev_text = <<>>
    /\ dd_next = 1
    /\ dd_pass = 1
    /\ first_output = <<>>
    /\ dd_pc = "idle"

DedupInit ==
    /\ dd_input \in SeqsUpTo(DedupTexts, MaxBlocks)
    /\ file_lines = InputFile(dd_input, 1)
    /\ blocks = <<>>
    /\ final_blocks = <<>>
    /\ prev_text = <<>>
    /\ dd_next = 1
    /\ dd_pass = 1
    /\ first_output = <<>>
    /\ dd_pc = "call"

\* blocks = parse_srt_robust(file_path); if not blocks: return False;
\* final_blocks = []; prev_text = "".
DedupParse ==
    /\ dd_pc = "call"
    /\ blocks' = parse_srt_robust(file_lines)
    /\ dd_pc' = IF blocks' = <<>> THEN "failed" ELSE "loop"
    /\ final_blocks' = <<>>
    /\ prev_text' = <<>>
    /\ dd_next' = 1
    /\ UNCHANGED <<dd_input, file_lines, dd_pass, first_output>>
    /\ UNCHANGED notDedupVars

\* One iteration of "for block in blocks".
DedupLoop ==
    /\ dd_pc = "loop"
    /\ dd_next <= Len(blocks)
    /\ LET block == blocks[dd_next]
           current_text_raw == strip(join_space(block.text_lines))
           new_text == retained_text(prev_text, current_text_raw)
       IN  IF final_blocks = <<>>
           THEN /\ final_blocks' = <<[time |-> block.time, text |-> current_text_raw]>>
                /\ prev_text' = current_text_raw
           ELSE IF keeps_text(new_text)
           THEN /\ final_blocks' = Append(final_blocks,
                                          [time |-> block.time, text |-> new_text])
                /\ prev_text' = kept_prev_text(current_text_raw, new_text)
           ELSE UNCHANGED <<final_blocks, prev_text>>
    /\ dd_next' = dd_next + 1
    /\ UNCHANGED <<dd_input, file_lines, blocks, dd_pass, first_output, dd_pc>>
    /\ UNCHANGED notDedupVars

\* The loop is over: the file is written from final_blocks, return True.
DedupWrite ==
    /\ dd_pc = "loop"
    /\ dd_next > Len(blocks)
    /\ file_lines' = written_lines(final_blocks, 1)
    /\ dd_pc' = "done"
    /\ UNCHANGED <<dd_input, blocks, final_blocks, prev_text, dd_next, dd_pass,
                   first_output>>
    /\ UNCHANGED notDedupVars

\* The deduplication loop is run again, on the entries the first run returned:
\* one block per (time, text) pair.
DedupAgain ==
    /\ dd_pc = "done"
    /\ dd_pass = 1
    /\ first_output' = final_blocks
    /\ blocks' = [k \in DOMAIN final_blocks |->
                     [seq |-> DecStr(k), time |-> final_blocks[k].time,
                      text_lines |-> <<final_blocks[k].text>>]]
    /\ final_blocks' = <<>>
    /\ prev_text' = <<>>
    /\ dd_next' = 1
    /\ dd_pass' = 2
    /\ dd_pc' = "loop"
    /\ UNCHANGED <<dd_input, file_lines>>
    /\ UNCHANGED notDedupVars

DedupNext == DedupParse \/ DedupLoop \/ DedupWrite \/ DedupAgain

\* ========================================= ChunkFrameAllocator ===========

\* The fraction bits of a Python float (IEEE 754 double).
MantissaBits == 52

\* floor(log2(k)) for k >= 1
RECURSIVE ilog2(_)
ilog2(k) == IF k < 2 THEN 0 ELSE 1 + ilog2(k \div 2)

\* 2^p mod w, by repeated squaring.
RECURSIVE pow2mod(_, _)
pow2mod(p, w) ==
    IF p = 0 THEN 1 % w
    ELSE LET half == pow2mod(p \div 2, w)
             square == (half * half) % w
         IN  IF p % 2 = 1 THEN (2 * square) % w ELSE square

\* Bit pos (1 = first after the binary point) of the binary expansion of
\* r / w, 0 <= r < w: the long division's remainder before that bit is
\* r * 2^(pos - 1) mod w.
fraction_bit(r, w, pos) ==
    IF 2 * ((r * pow2mod(pos - 1, w)) % w) >= w THEN 1 ELSE 0

\* Zero bits before the first one bit of r / w, 0 < r < w.
RECURSIVE leading_zeros(_, _)
leading_zeros(r, w) == IF 2 * r >= w THEN 0 ELSE 1 + leading_zeros(2 * r, w)

\* exact = (total_frames * weight) / total_weight is the double nearest to
\* k + num / w (k = floor, num = numerator of the fraction): a double keeps
\* this many bits after the binary point.
kept_fraction_bits(k, num, w) ==
    IF k >= 1 THEN MantissaBits - ilog2(k)
    ELSE MantissaBits + 1 + leading_zeros(num, w)

\* A mutant of FloatRemainder: alloc = round(exact) in place of int(exact).
FloatRemainder_rounded(total, weight, w) ==
    [k |-> (2 * total * weight + w) \div (2 * w), num |-> (total * weight) % w]

\* remainders[idx] = exact - alloc: the fraction num / w rounded to the bits
\* that exact keeps.  The record stands for that float.
FloatRemainder(total, weight, w) ==
    [k |-> (total * weight) \div w, num |-> (total * weight) % w]

\* The comparison of two such floats: 1 (a > b), 0 (equal), -1 (a < b).
\* Different fractions compare as the fractions do (they differ by at least
\* 1 / w); the same fraction rounded to m1 < m2 bits differs by the rounding
\* of bit m1 + 1, unless the bits m1 + 1 .. m2 + 1 are all equal.
compare_remainders(a, b, w) ==
    IF a.num /= b.num THEN (IF a.num > b.num THEN 1 ELSE -1)
    ELSE IF a.num = 0 THEN 0
    ELSE LET ma == kept_fraction_bits(a.k, a.num, w)
             mb == kept_fraction_bits(b.k, b.num, w)
             m1 == Min(ma, mb)
             m2 == Max(ma, mb)
             window == [i \in 1..(m2 - m1 + 1) |-> fraction_bit(a.num, w, m1 + i)]
             coarse_sign == IF ma < mb THEN 1 ELSE -1
         IN  IF ma = mb THEN 0
             ELSE IF \A i \in DOMAIN window : window[i] = window[1] THEN 0
             ELSE IF window[1] = 1 THEN coarse_sign ELSE -coarse_sign

\* sorted(indices, key=remainders, reverse) with Python's stable sort: among
\* equal keys the smaller index comes first, ascending or descending.
RECURSIVE sorted_indices(_, _, _, _)
sorted_indices(left, rems, w, descending) ==
    IF left = {} THEN <<>>
    ELSE LET sign == IF descending THEN 1 ELSE -1
             first == {i \in left : \A j \in left :
                          sign * compare_remainders(rems[j], rems[i], w) <= 0}
             pick == CHOOSE i \in first : \A j \in first : i <= j
         IN  <<pick>> \o sorted_indices(left \ {pick}, rems, w, descending)

\* A mutant of allocation_order: reverse=True is left out.
allocation_order_ascending(rems, w) ==
    sorted_indices(DOMAIN rems, rems, w, FALSE)

\* order = sorted(range(len(sections)), key=lambda idx: remainders[idx],
\*                reverse=True), as 1-based indices.
allocation_order(rems, w) == sorted_indices(DOMAIN rems, rems, w, TRUE)

RECURSIVE SumSeq(_, _)
SumSeq(q, i) == IF i > Len(q) THEN 0 ELSE q[i] + SumSeq(q, i + 1)

AllocIdle ==
    /\ sections = <<>>
    /\ total_frames = 0
    /\ weights = <<>>
    /\ total_weight = 0
    /\ allocations = <<>>
    /\ remainders = <<>>
    /\ order = <<>>
    /\ remaining = 0
    /\ al_idx = 0
    /\ al_pc = "idle"

AllocInit ==
    /\ sections \in SeqsUpTo(0..MaxSectionWords, MaxSections)
    /\ total_frames \in 0..MaxAllocFrames
    /\ weights = <<>>
    /\ total_weight = 0
    /\ allocations = <<>>
    /\ remainders = <<>>
    /\ order = <<>>
    /\ remaining = 0
    /\ al_idx = 0
    /\ al_pc = "call"

\* Everything up to the distribution loop: the early return for
\* total_frames <= 0, the weights, the floor allocation, the remainders, the
\* order.
AllocBegin ==
    /\ al_pc = "call"
    /\ IF total_frames <= 0
       THEN /\ allocations' = [i \in DOMAIN sections |-> 0]
            /\ al_pc' = "done"
            /\ UNCHANGED <<weights, total_weight, remainders, order, remaining>>
       ELSE LET ws == [i \in DOMAIN sections |->
                          IF sections[i] > 0 THEN sections[i] ELSE 1]
                tw == SumSeq(ws, 1)
                rems == [i \in DOMAIN ws |-> FloatRemainder(total_frames, ws[i], tw)]
                floors == [i \in DOMAIN ws |-> rems[i].k]
                left == total_frames - SumSeq(floors, 1)
            IN  /\ weights' = ws
                /\ total_weight' = tw
                /\ allocations' = floors
                /\ remainders' = rems
                /\ remaining' = left
                /\ order' = IF left > 0 THEN allocation_order(rems, tw) ELSE <<>>
                /\ al_pc' = IF left > 0 THEN "give" ELSE "done"
    /\ al_idx' = 0
    /\ UNCHANGED <<sections, total_frames>>
    /\ UNCHANGED notAllocVars

\* One iteration of "while remaining > 0 and order".
AllocGive ==
    /\ al_pc = "give"
    /\ remaining > 0
    /\ order /= <<>>
    /\ LET target == At(order, al_idx % Len(order))
       IN  allocations' = [allocations EXCEPT ![target] = @ + 1]
    /\ remaining' = remaining - 1
    /\ al_idx' = al_idx + 1
    /\ UNCHANGED <<sections, total_frames, weights, total_weight, remainders,
                   order, al_pc>>
    /\ UNCHANGED notAllocVars

\* The loop condition fails: return allocations.
AllocReturn ==
    /\ al_pc = "give"
    /\ ~(remaining > 0 /\ order /= <<>>)
    /\ al_pc' = "done"
    /\ UNCHANGED <<sections, total_frames, weights, total_weight, allocations,
                   remainders, order, remaining, al_idx>>
    /\ UNCHANGED notAllocVars

AllocNext == AllocBegin \/ AllocGive \/ AllocReturn

\* ================================================ FrameSampler ==========

\* Python's None, for last_saved_frame, last_saved_time and a missing score.
None == -1

\* Times are given in ticks of 1 / TicksPerSecond seconds.  With the frame
\* rates of FrameRates every float the function computes is exact.
TicksPerSecond == 2

RECURSIVE Pow2(_)
Pow2(k) == IF k = 0 THEN 1 ELSE 2 * Pow2(k - 1)

\* What cap.get(cv2.CAP_PROP_FPS) returns: 0 when the backend does not
\* know the rate.
FrameRates == {0} \cup {Pow2(k) : k \in 0..MaxFpsLog2}

\* Defaults of the parameters; change scores are in hundredths, the minimum
\* intervals in seconds.
primary_change_threshold == 25
secondary_change_threshold == 12
min_primary_interval == 4
min_secondary_interval == 2

\* The change scores _block_change_score (or 1 - similarity) may return, in
\* hundredths: below, at and above each threshold.
ScoreLevels == {secondary_change_threshold - 1, secondary_change_threshold,
                primary_change_threshold - 1, primary_change_threshold}

\* A float time of t ticks, in units of 1 / (TicksPerSecond * fps) seconds.
time_of_ticks(ticks, rate) == ticks * rate

\* A float time of t seconds, in the same units.
time_of_seconds(seconds, rate) == seconds * TicksPerSecond * rate

\* int(time * fps)
frame_of_ticks(ticks, rate) == (ticks * rate) \div TicksPerSecond

\* current_time = start_time + (frame_count / fps), in the same units.
current_time(start, count, rate) == time_of_ticks(start, rate) + TicksPerSecond * count

\* A mutant of loop_continues: the last frame of the range is left out.
loop_continues_exclusive(count, first, last) == count < (last - first)

\* while frame_count <= (end_frame - start_frame)
loop_continues(count, first, last) == count <= (last - first)

\* A mutant of past_end: the time of the frame is not tested.
past_end_never(now, finish) == FALSE

\* if current_time > end_time: break
past_end(now, finish) == now > finish

\* A mutant of classify: a score that reaches the primary threshold too early
\* for a primary frame is skipped instead of being tried as a secondary one.
classify_no_fallthrough(change_score, time_since_last, rate) ==
    IF change_score >= primary_change_threshold
    THEN IF time_since_last >= time_of_seconds(min_primary_interval, rate)
         THEN "primary" ELSE "skipped"
    ELSE IF /\ change_score >= secondary_change_threshold
            /\ time_since_last >= time_of_seconds(min_secondary_interval, rate)
    THEN "secondary"
    ELSE "skipped"

\* A mutant of classify: a secondary frame is saved without the test of
\* min_secondary_interval.
classify_no_debounce(change_score, time_since_last, rate) ==
    IF /\ change_score >= primary_change_threshold
       /\ time_since_last >= time_of_seconds(min_primary_interval, rate)
    THEN "primary"
    ELSE IF change_score >= secondary_change_threshold
    THEN "secondary"
    ELSE "skipped"

\* The if / elif / else on change_score and time_since_last.
classify(change_score, time_since_last, rate) ==
    IF /\ change_score >= primary_change_threshold
       /\ time_since_last >= time_of_seconds(min_primary_interval, rate)
    THEN "primary"
    ELSE IF /\ change_score >= secondary_change_threshold
            /\ time_since_last >= time_of_seconds(min_secondary_interval, rate)
    THEN "secondary"
    ELSE "skipped"

\* A mutant of saved_file: the file is stamped with the time of the frame
\* before the one that is saved.
saved_file_stamped_early(files, frame, timestamp, is_primary, change_score) ==
    [kind |-> IF is_primary THEN "main" ELSE "aux",
     count |-> Len(files),
     timestamp |-> timestamp - TicksPerSecond,
     frame |-> frame - 1,
     score |-> change_score]

\* save_frame(pending, timestamp, is_primary): the file written and appended
\* to extracted_files; score is the change score that led to the save.
saved_file(files, frame, timestamp, is_primary, change_score) ==
    [kind |-> IF is_primary THEN "main" ELSE "aux",
     count |-> Len(files),
     timestamp |-> timestamp,
     frame |-> frame,
     score |-> change_score]

NotJudged ==
    [frame |-> None, reference |-> None, change_score |-> None,
     time_since_last |-> None, outcome |-> "none"]

FrameIdle ==
    /\ fr_opened = FALSE
    /\ fps = 0
    /\ start_ticks = 0
    /\ end_ticks = 0
    /\ interval_ticks = 0
    /\ skip_similar = FALSE
    /\ start_frame = 0
    /\ end_frame = 0
    /\ frame_interval = 0
    /\ frame_count = 0
    /\ extracted_files = <<>>
    /\ skipped_similar = 0
    /\ last_saved_frame = None
    /\ last_saved_time = None
    /\ judged = NotJudged
    /\ read_failed = FALSE
    /\ fr_error = ""
    /\ fr_pc = "idle"

FrameInit ==
    /\ fr_opened \in BOOLEAN
    /\ fps \in FrameRates
    /\ start_ticks \in 0..MaxStartTicks
    /\ end_ticks \in start_ticks..(start_ticks + MaxWindowTicks)
    /\ interval_ticks \in 1..MaxIntervalTicks
    /\ skip_similar \in BOOLEAN
    /\ start_frame = 0
    /\ end_frame = 0
    /\ frame_interval = 0
    /\ frame_count = 0
    /\ extracted_files = <<>>
    /\ skipped_similar = 0
    /\ last_saved_frame = None
    /\ last_saved_time = None
    /\ judged = NotJudged
    /\ read_failed = FALSE
    /\ fr_error = ""
    /\ fr_pc = "call"

\* if not cap.isOpened(): raise ValueError
FrameOpenFail ==
    /\ fr_pc = "call"
    /\ ~fr_opened
    /\ fr_error' = "ValueError"
    /\ fr_pc' = "raised"
    /\ UNCHANGED <<fr_opened, fps, start_ticks, end_ticks, interval_ticks,
                   skip_similar, start_frame, end_frame, frame_interval,
                   frame_count, extracted_files, skipped_similar,
                   last_saved_frame, last_saved_time, judged, read_failed>>
    /\ UNCHANGED notFrameVars

\* The source opens: everything up to the loop.
FrameOpen ==
    /\ fr_pc = "call"
    /\ fr_opened
    /\ start_frame' = frame_of_ticks(start_ticks, fps)
    /\ end_frame' = frame_of_ticks(end_ticks, fps)
    /\ frame_interval' = Max(1, frame_of_ticks(interval_ticks, fps))
    /\ extracted_files' = <<>>
    /\ frame_count' = 0
    /\ skipped_similar' = 0
    /\ last_saved_frame' = None
    /\ last_saved_time' = None
    /\ fr_pc' = "loop"
    /\ UNCHANGED <<fr_opened, fps, start_ticks, end_ticks, interval_ticks,
                   skip_similar, judged, read_failed, fr_error>>
    /\ UNCHANGED notFrameVars

\* The loop condition fails: cap.release(), return extracted_files.
FrameLoopExit ==
    /\ fr_pc = "loop"
    /\ ~loop_continues(frame_count, start_frame, end_frame)
    /\ fr_pc' = "returned"
    /\ UNCHANGED <<fr_opened, fps, start_ticks, end_ticks, interval_ticks,
                   skip_similar, start_frame, end_frame, frame_interval,
                   frame_count, extracted_files, skipped_similar,
                   last_saved_frame, last_saved_time, judged, read_failed,
                   fr_error>>
    /\ UNCHANGED notFrameVars

\* ret, frame = cap.read() with ret = False: break, return extracted_files.
FrameReadFail ==
    /\ fr_pc = "loop"
    /\ loop_continues(frame_count, start_frame, end_frame)
    /\ read_failed' = TRUE
    /\ fr_pc' = "returned"
    /\ UNCHANGED <<fr_opened, fps, start_ticks, end_ticks, interval_ticks,
                   skip_similar, start_frame, end_frame, frame_interval,
                   frame_count, extracted_files, skipped_similar,
                   last_saved_frame, last_saved_time, judged, fr_error>>
    /\ UNCHANGED notFrameVars

\* A frame was read and fps is 0: frame_count / fps raises.
FrameDivideByZero ==
    /\ fr_pc = "loop"
    /\ loop_continues(frame_count, start_frame, end_frame)
    /\ fps = 0
    /\ fr_error' = "ZeroDivisionError"
    /\ fr_pc' = "raised"
    /\ UNCHANGED <<fr_opened, fps, start_ticks, end_ticks, interval_ticks,
                   skip_similar, start_frame, end_frame, frame_interval,
                   frame_count, extracted_files, skipped_similar,
                   last_saved_frame, last_saved_time, judged, read_failed>>
    /\ UNCHANGED notFrameVars

\* A frame was read and its time is past end_time: break, return.
FramePastEnd ==
    /\ fr_pc = "loop"
    /\ loop_continues(frame_count, start_frame, end_frame)
    /\ fps /= 0
    /\ past_end(current_time(start_ticks, frame_count, fps),
                time_of_ticks(end_ticks, fps))
    /\ fr_pc' = "returned"
    /\ UNCHANGED <<fr_opened, fps, start_ticks, end_ticks, interval_ticks,
                   skip_similar, start_frame, end_frame, frame_interval,
                   frame_count, extracted_files, skipped_similar,
                   last_saved_frame, last_saved_time, judged, read_failed,
                   fr_error>>
    /\ UNCHANGED notFrameVars

\* A frame was read inside the window: the rest of the loop body.
FrameStep ==
    /\ fr_pc = "loop"
    /\ loop_continues(frame_count, start_frame, end_frame)
    /\ fps /= 0
    /\ ~past_end(current_time(start_ticks, frame_count, fps),
                 time_of_ticks(end_ticks, fps))
    /\ LET now == current_time(start_ticks, frame_count, fps)
           frame == start_frame + frame_count
       IN  IF frame_count % frame_interval /= 0
           THEN UNCHANGED <<extracted_files, skipped_similar, last_saved_frame,
                            last_saved_time, judged>>
           ELSE IF ~skip_similar
           THEN /\ extracted_files' = Append(extracted_files,
                        saved_file(extracted_files, frame, now, TRUE, None))
                /\ UNCHANGED <<skipped_similar, last_saved_frame,
                               last_saved_time, judged>>
           ELSE IF last_saved_frame = None
           THEN /\ extracted_files' = Append(extracted_files,
                        saved_file(extracted_files, frame, now, TRUE, None))
                /\ last_saved_frame' = frame
                /\ last_saved_time' = now
                /\ judged' = [frame |-> frame, reference |-> None,
                              change_score |-> None, time_since_last |-> None,
                              outcome |-> "primary"]
                /\ UNCHANGED skipped_similar
           ELSE \E change_score \in ScoreLevels :
                LET time_since_last == now - last_saved_time
                    outcome == classify(change_score, time_since_last, fps)
                IN  /\ judged' = [frame |-> frame,
                                  reference |-> last_saved_frame,
                                  change_score |-> change_score,
                                  time_since_last |-> time_since_last,
                                  outcome |-> outcome]
                    /\ IF outcome = "skipped"
                       THEN /\ skipped_similar' = skipped_similar + 1
                            /\ UNCHANGED <<extracted_files, last_saved_frame,
                                           last_saved_time>>
                       ELSE /\ extracted_files' = Append(extracted_files,
                                    saved_file(extracted_files, frame, now,
                                               outcome = "primary", change_score))
                            /\ last_saved_frame' = frame
                            /\ last_saved_time' = now
                            /\ UNCHANGED skipped_similar
    /\ frame_count' = frame_count + 1
    /\ UNCHANGED <<fr_opened, fps, start_ticks, end_ticks, interval_ticks,
                   skip_similar, start_frame, end_frame, frame_interval,
                   read_failed, fr_error, fr_pc>>
    /\ UNCHANGED notFrameVars

FrameNext ==
    \/ FrameOpenFail
    \/ FrameOpen
    \/ FrameLoopExit
    \/ FrameReadFail
    \/ FrameDivideByZero
    \/ FramePastEnd
    \/ FrameStep

\* ============================================== FrameDeduplicator ========

\* Default of similarity_threshold, in hundredths.
similarity_threshold == 97

\* The largest pixel value: max_mse = 255.0 ** 2.
max_pixel == 255

\* The files the paths may name.
PathNames == {"f1", "f2", "f3"}

\* The images on disk are uniformly gray frames: their gray levels.  44 is
\* the largest difference of levels that still counts as similar.
GrayLevels == {0, 44, 45, 89}

\* A file is missing, or exists; cv2.imread gives its image, or None when it
\* cannot be read as an image.
Missing == [exists |-> FALSE, image |-> None]

FileStates == {Missing} \cup {[exists |-> TRUE, image |-> g] : g \in {None} \cup GrayLevels}

\* A mutant of loadable: the check "image is None" is left out.
loadable_if_exists(state) == state.exists

\* The two checks that skip a path: os.path.exists(path) and
\* cv2.imread(path) is not None.
loadable(state) == state.exists /\ state.image /= None

\* A mutant of is_similar: the similarity is taken from the absolute
\* difference instead of the squared one.
is_similar_linear(g1, g2) ==
    LET d == IF g1 >= g2 THEN g1 - g2 ELSE g2 - g1
    IN  100 * (max_pixel - d) >= similarity_threshold * max_pixel

\* _calculate_similarity(ref_img, image) >= similarity_threshold, for two
\* uniformly gray images: mse = (g1 - g2) ** 2, similarity = 1 - mse / max_mse.
is_similar(g1, g2) ==
    100 * (max_pixel * max_pixel - (g1 - g2) * (g1 - g2))
        >= similarity_threshold * max_pixel * max_pixel

\* The inner for loop: the 1-based position of the first reference image
\* similar to image (is_duplicate, break), 0 if there is none.
RECURSIVE first_similar(_, _, _)
first_similar(refs, image, k) ==
    IF k > Len(refs) THEN 0
    ELSE IF is_similar(refs[k], image) THEN k
    ELSE first_similar(refs, image, k + 1)

FrameDedupIdle ==
    /\ frame_paths = <<>>
    /\ disk = [n \in PathNames |-> Missing]
    /\ deduped = <<>>
    /\ reference_images = <<>>
    /\ fd_next = 1
    /\ fd_last = "none"
    /\ fd_pc = "idle"

FrameDedupInit ==
    /\ frame_paths \in SeqsUpTo(PathNames, MaxFramePaths)
    /\ disk \in [PathNames -> FileStates]
    /\ deduped = <<>>
    /\ reference_images = <<>>
    /\ fd_next = 1
    /\ fd_last = "none"
    /\ fd_pc = "call"

\* if not frame_paths: return frame_paths
FrameDedupEmpty ==
    /\ fd_pc = "call"
    /\ frame_paths = <<>>
    /\ deduped' = frame_paths
    /\ fd_pc' = "done"
    /\ UNCHANGED <<frame_paths, disk, reference_images, fd_next, fd_last>>
    /\ UNCHANGED notFrameDedupVars

\* deduped = [], reference_images = []
FrameDedupBegin ==
    /\ fd_pc = "call"
    /\ frame_paths /= <<>>
    /\ deduped' = <<>>
    /\ reference_images' = <<>>
    /\ fd_next' = 1
    /\ fd_pc' = "loop"
    /\ UNCHANGED <<frame_paths, disk, fd_last>>
    /\ UNCHANGED notFrameDedupVars

\* One iteration of "for path in frame_paths".
FrameDedupStep ==
    /\ fd_pc = "loop"
    /\ fd_next <= Len(frame_paths)
    /\ LET path == frame_paths[fd_next]
           image == disk[path].image
       IN  IF ~loadable(disk[path])
           THEN /\ fd_last' = IF disk[path].exists THEN "unreadable" ELSE "missing"
                /\ UNCHANGED <<deduped, reference_images>>
           ELSE IF first_similar(reference_images, image, 1) /= 0
           THEN /\ fd_last' = "duplicate"
                /\ UNCHANGED <<deduped, reference_images>>
           ELSE /\ fd_last' = "kept"
                /\ deduped' = Append(deduped, path)
                /\ reference_images' = Append(reference_images, image)
    /\ fd_next' = fd_next + 1
    /\ UNCHANGED <<frame_paths, disk, fd_pc>>
    /\ UNCHANGED notFrameDedupVars

\* The loop is over: return deduped.
FrameDedupReturn ==
    /\ fd_pc = "loop"
    /\ fd_next > Len(frame_paths)
    /\ fd_pc' = "done"
    /\ UNCHANGED <<frame_paths, disk, deduped, reference_images, fd_next, fd_last>>
    /\ UNCHANGED notFrameDedupVars

FrameDedupNext ==
    \/ FrameDedupEmpty
    \/ FrameDedupBegin
    \/ FrameDedupStep
    \/ FrameDedupReturn

\* ================================================= SubtitleParser ========

\* The byte order mark '﻿', one character.
BOM == "BOM"

NL == "\n"

Str_WEBVTT == <<"W", "E", "B", "V", "T", "T">>

\* s.startswith(t)
startswith(s, t) == Len(t) <= Len(s) /\ SubSeq(s, 1, Len(t)) = t

\* s.lstrip('﻿')
RECURSIVE lstrip_bom(_)
lstrip_bom(s) == IF s /= <<>> /\ Head(s) = BOM THEN lstrip_bom(Tail(s)) ELSE s

\* s.find(t, from): the first 1-based position >= from where t occurs in s,
\* 0 if there is none.
find(s, t, from) ==
    LET hits == {i \in from..(Len(s) - Len(t) + 1) : SubSeq(s, i, i + Len(t) - 1) = t}
    IN  IF hits = {} THEN 0 ELSE CHOOSE i \in hits : \A j \in hits : i <= j

\* re.sub(r'WEBVTT.*?\n\n', '', s, flags=re.DOTALL): every stretch from a
\* WEBVTT to the first empty line after it is removed, left to right.
RECURSIVE remove_webvtt(_)
remove_webvtt(s) ==
    LET i == find(s, Str_WEBVTT, 1)
        j == IF i = 0 THEN 0 ELSE find(s, <<NL, NL>>, i + Len(Str_WEBVTT))
    IN  IF j = 0 THEN s
        ELSE SubSeq(s, 1, i - 1) \o remove_webvtt(Drop(s, j + 1))

\* s.split(sep), sep not empty
RECURSIVE split(_, _)
split(s, sep) ==
    LET i == find(s, sep, 1)
    IN  IF i = 0 THEN <<s>>
        ELSE <<SubSeq(s, 1, i - 1)>> \o split(Drop(s, i + Len(sep) - 1), sep)

\* sep.join(parts)
RECURSIVE join(_, _)
join(parts, sep) ==
    IF parts = <<>> THEN <<>>
    ELSE IF Len(parts) = 1 THEN parts[1]
    ELSE parts[1] \o sep \o join(Tail(parts), sep)

\* f.readlines(): the lines of the file, each with its line end.
RECURSIVE readlines(_)
readlines(s) ==
    LET i == find(s, <<NL>>, 1)
    IN  IF s = <<>> THEN <<>>
        ELSE IF i = 0 THEN <<s>>
        ELSE <<SubSeq(s, 1, i)>> \o readlines(Drop(s, i))

\* \d{2}:\d{2}:\d{2}[,\.]\d{3} matches at position i of line
stamp_at(line, i) ==
    /\ i + 11 <= Len(line)
    /\ \A k \in {0, 1, 3, 4, 6, 7, 9, 10, 11} : line[i + k] \in Digits
    /\ line[i + 2] = ":"
    /\ line[i + 5] = ":"
    /\ line[i + 8] \in {",", "."}

\* \s*: the first position >= i of line that holds no white space
RECURSIVE skip_space(_, _)
skip_space(line, i) ==
    IF i <= Len(line) /\ line[i] \in Whitespace THEN skip_space(line, i + 1) ELSE i

\* timestamp_pattern matches at position i of line: the position of the
\* second time stamp, 0 if the pattern does not match there.
timestamp_at(line, i) ==
    IF ~stamp_at(line, i) THEN 0
    ELSE LET a == skip_space(line, i + 12)
             b == skip_space(line, a + 3)
         IN  IF /\ a + 2 <= Len(line)
                /\ SubSeq(line, a, a + 2) = Arrow
                /\ stamp_at(line, b)
             THEN b ELSE 0

\* timestamp_pattern.search(line): None, or groups 1 and 2 of the leftmost match
timestamp_search(line) ==
    LET hits == {i \in DOMAIN line : timestamp_at(line, i) /= 0}
        i == CHOOSE h \in hits : \A k \in hits : h <= k
        b == timestamp_at(line, i)
    IN  IF hits = {} THEN <<>>
        ELSE <<SubSeq(line, i, i + 11), SubSeq(line, b, b + 11)>>

\* s.replace('.', ',')
replace_dot(s) == [i \in DOMAIN s |-> IF s[i] = "." THEN "," ELSE s[i]]

\* The inner loop over the lines of one block, from line k: time_match (None
\* is <<>>) and dialogue_lines.
RECURSIVE scan_block(_, _, _, _)
scan_block(lines, k, time_match, dialogue_lines) ==
    IF k > Len(lines) THEN [time_match |-> time_match, dialogue_lines |-> dialogue_lines]
    ELSE LET line == strip(lines[k])
             found == timestamp_search(line)
         IN  IF Contains(line, Arrow) /\ found /= <<>>
             THEN scan_block(lines, k + 1, found, dialogue_lines)
             ELSE IF isdigit(line)
             THEN scan_block(lines, k + 1, time_match, dialogue_lines)
             ELSE scan_block(lines, k + 1, time_match, Append(dialogue_lines, line))

\* if time_match and dialogue_lines
emits_entry(scanned) == scanned.time_match /= <<>> /\ scanned.dialogue_lines /= <<>>

\* The loop over the blocks from block k: subtitle_data.
RECURSIVE parse_blocks(_, _, _)
parse_blocks(file_blocks, k, data) ==
    IF k > Len(file_blocks) THEN data
    ELSE LET scanned == scan_block(split(strip(file_blocks[k]), <<NL>>), 1, <<>>, <<>>)
         IN  IF emits_entry(scanned)
             THEN parse_blocks(file_blocks, k + 1,
                      Append(data, [start |-> replace_dot(scanned.time_match[1]),
                                    end |-> replace_dot(scanned.time_match[2]),
                                    text |-> join(scanned.dialogue_lines, <<" ">>)]))
             ELSE parse_blocks(file_blocks, k + 1, data)

\* The text that parse_subtitles splits into blocks: without byte order
\* marks and WEBVTT header.
subtitle_body(content) ==
    LET no_bom == IF startswith(content, <<BOM>>) THEN lstrip_bom(content) ELSE content
    IN  IF startswith(no_bom, Str_WEBVTT) THEN remove_webvtt(no_bom) ELSE no_bom

\* blocks = file_content.strip().split('\n\n')
subtitle_blocks(content) == split(strip(subtitle_body(content)), <<NL, NL>>)

\* parse_subtitles(file_content)[0]
parse_subtitles(content) == parse_blocks(subtitle_blocks(content), 1, <<>>)

\* The lines a subtitle file is made of.
Line_number == <<"7">>
Line_text == <<"h", "i">>
Line_blank == <<" ">>
Line_bad_arrow == <<"1", " ">> \o Arrow \o <<" ", "2">>
\* "00:00:03.000-->00:00:04,000"
Line_time ==
    <<"0", "0", ":", "0", "0", ":", "0", "3", ".", "0", "0", "0">> \o Arrow \o Stamp(4)

SubtitleLines ==
    {<<>>, Line_blank, Line_number, Line_text, Line_time, Line_bad_arrow,
     Str_WEBVTT}

SubtitleFiles ==
    {bom \o join(lines, <<NL>>) :
        bom \in {<<>>, <<BOM>>}, lines \in SeqsUpTo(SubtitleLines, MaxSubtitleLines)}

SubtitleParserIdle ==
    /\ file_content = <<>>
    /\ subtitle_entries = <<>>
    /\ consolidated_text = <<>>
    /\ robust_blocks = <<>>
    /\ ps_pc = "idle"
    /\ pr_pc = "idle"

SubtitleParserInit ==
    /\ file_content \in SubtitleFiles
    /\ subtitle_entries = <<>>
    /\ consolidated_text = <<>>
    /\ robust_blocks = <<>>
    /\ ps_pc = "call"
    /\ pr_pc = "call"

\* parse_subtitles(file_content) returns subtitle_data, consolidated_text.
ParseSubtitles ==
    /\ ps_pc = "call"
    /\ LET parsed == parse_subtitles(file_content)
       IN  /\ subtitle_entries' = parsed
           /\ consolidated_text' =
                  join([k \in DOMAIN parsed |-> parsed[k].text], <<NL>>)
    /\ ps_pc' = "done"
    /\ UNCHANGED <<file_content, robust_blocks, pr_pc>>
    /\ UNCHANGED notSubtitleParserVars

\* parse_srt_robust(file_path) on the same file returns blocks.
ParseRobust ==
    /\ pr_pc = "call"
    /\ robust_blocks' = parse_srt_robust(readlines(file_content))
    /\ pr_pc' = "done"
    /\ UNCHANGED <<file_content, subtitle_entries, consolidated_text, ps_pc>>
    /\ UNCHANGED notSubtitleParserVars

SubtitleParserNext == ParseSubtitles \/ ParseRobust

\* ================================================== process_video ========

\* The positions of the main thread from the fork on.
PvMainSteps ==
    {"idle", "start", "inline_summary", "submitted_summary", "wait_summary",
     "wait_frames", "unwinding", "joined", "done", "raised"}

\* The objects written from the fork on: the list summaries and the summary
\* file (written by _generate_summary_with_chunks), the dict chunk_frames and
\* the frame files (written by _extract_frames_for_chunks), the final
\* markdown file (written by _generate_final_markdown).
PvObjects == {"summaries", "summary_file", "chunk_frames", "frame_files", "final_md"}

PvThreads == {"main", "summary_worker", "frames_worker"}

NotSubmitted == [state |-> "none", next |-> 0]

\* A mutant of future_finished: result() does not wait for the task.
future_finished_always(future) == TRUE

\* future.result() returns or re-raises once the task has finished; so does
\* the executor's shutdown(wait=True) at the end of the with block.
future_finished(future) == future.state \in {"none", "done", "failed"}

wrote(writers, thread, objects) ==
    [o \in PvObjects |-> IF o \in objects THEN writers[o] \cup {thread} ELSE writers[o]]

\* The thread a task runs in: the main thread in text_only mode, its worker
\* otherwise.
thread_of(worker) == IF text_only THEN "main" ELSE worker

ProcessVideoIdle ==
    /\ text_only = FALSE
    /\ pv_chunks = 0
    /\ summary_future = NotSubmitted
    /\ frames_future = NotSubmitted
    /\ pv_writers = [o \in PvObjects |-> {}]
    /\ pv_overlap = FALSE
    /\ pv_assembly = NotSubmitted
    /\ pv_pc = "idle"

ProcessVideoInit ==
    /\ text_only \in BOOLEAN
    /\ pv_chunks \in 0..MaxVideoChunks
    /\ summary_future = NotSubmitted
    /\ frames_future = NotSubmitted
    /\ pv_writers = [o \in PvObjects |-> {}]
    /\ pv_overlap = FALSE
    /\ pv_assembly = NotSubmitted
    /\ pv_pc = "start"

\* text_only: summary_path = self._generate_summary_with_chunks(...) is
\* called in the main thread.
PvCallSummary ==
    /\ pv_pc = "start"
    /\ text_only
    /\ summary_future' = [state |-> "running", next |-> 1]
    /\ pv_pc' = "inline_summary"
    /\ UNCHANGED <<text_only, pv_chunks, frames_future, pv_writers, pv_overlap,
                   pv_assembly>>
    /\ UNCHANGED notProcessVideoVars

\* summary_future = executor.submit(self._generate_summary_with_chunks, ...)
PvSubmitSummary ==
    /\ pv_pc = "start"
    /\ ~text_only
    /\ summary_future' = [state |-> "running", next |-> 1]
    /\ pv_pc' = "submitted_summary"
    /\ UNCHANGED <<text_only, pv_chunks, frames_future, pv_writers, pv_overlap,
                   pv_assembly>>
    /\ UNCHANGED notProcessVideoVars

\* frames_future = executor.submit(self._extract_frames_for_chunks, ...)
PvSubmitFrames ==
    /\ pv_pc = "submitted_summary"
    /\ frames_future' = [state |-> "running", next |-> 1]
    /\ pv_pc' = "wait_summary"
    /\ UNCHANGED <<text_only, pv_chunks, summary_future, pv_writers, pv_overlap,
                   pv_assembly>>
    /\ UNCHANGED notProcessVideoVars

\* _generate_summary_with_chunks: one chunk is summarized and appended to
\* summaries.
SummaryStep ==
    /\ summary_future.state = "running"
    /\ summary_future.next <= pv_chunks
    /\ summary_future' = [summary_future EXCEPT !.next = @ + 1]
    /\ pv_writers' = wrote(pv_writers, thread_of("summary_worker"), {"summaries"})
    /\ pv_overlap' = (pv_overlap \/ (frames_future.state = "running" /\ frames_future.next > 1))
    /\ UNCHANGED <<text_only, pv_chunks, frames_future, pv_assembly, pv_pc>>
    /\ UNCHANGED notProcessVideoVars

\* _generate_summary_with_chunks raises: no API key, no client, or a chunk
\* whose summary failed max_retries times.
SummaryFail ==
    /\ summary_future.state = "running"
    /\ summary_future.next <= pv_chunks \/ summary_future.next = 1
    /\ summary_future' = [summary_future EXCEPT !.state = "failed"]
    /\ UNCHANGED <<text_only, pv_chunks, frames_future, pv_writers, pv_overlap,
                   pv_assembly, pv_pc>>
    /\ UNCHANGED notProcessVideoVars

\* _generate_summary_with_chunks writes the summary file and returns its path.
SummaryFinish ==
    /\ summary_future.state = "running"
    /\ summary_future.next > pv_chunks
    /\ summary_future' = [summary_future EXCEPT !.state = "done"]
    /\ pv_writers' = wrote(pv_writers, thread_of("summary_worker"), {"summary_file"})
    /\ UNCHANGED <<text_only, pv_chunks, frames_future, pv_overlap, pv_assembly,
                   pv_pc>>
    /\ UNCHANGED notProcessVideoVars

\* _extract_frames_for_chunks: the frames of one chunk are extracted into its
\* directory, deduplicated and stored in chunk_frames[i].
FramesStep ==
    /\ frames_future.state = "running"
    /\ frames_future.next <= pv_chunks
    /\ frames_future' = [frames_future EXCEPT !.next = @ + 1]
    /\ pv_writers' = wrote(pv_writers, "frames_worker", {"frame_files", "chunk_frames"})
    /\ pv_overlap' = (pv_overlap \/ (summary_future.state = "running" /\ summary_future.next > 1))
    /\ UNCHANGED <<text_only, pv_chunks, summary_future, pv_assembly, pv_pc>>
    /\ UNCHANGED notProcessVideoVars

\* _extract_frames_for_chunks raises: extract_frames_in_range raised for a chunk.
FramesFail ==
    /\ frames_future.state = "running"
    /\ frames_future.next <= pv_chunks
    /\ frames_future' = [frames_future EXCEPT !.state = "failed"]
    /\ UNCHANGED <<text_only, pv_chunks, summary_future, pv_writers, pv_overlap,
                   pv_assembly, pv_pc>>
    /\ UNCHANGED notProcessVideoVars

\* _extract_frames_for_chunks returns chunk_frames.
FramesFinish ==
    /\ frames_future.state = "running"
    /\ frames_future.next > pv_chunks
    /\ frames_future' = [frames_future EXCEPT !.state = "done"]
    /\ UNCHANGED <<text_only, pv_chunks, summary_future, pv_writers, pv_overlap,
                   pv_assembly, pv_pc>>
    /\ UNCHANGED notProcessVideoVars

\* text_only: the call of _generate_summary_with_chunks returns or raises.
PvSummaryReturned ==
    /\ pv_pc = "inline_summary"
    /\ summary_future.state \in {"done", "failed"}
    /\ pv_pc' = IF summary_future.state = "failed" THEN "raised" ELSE "joined"
    /\ UNCHANGED <<text_only, pv_chunks, summary_future, frames_future, pv_writers,
                   pv_overlap, pv_assembly>>
    /\ UNCHANGED notProcessVideoVars

\* summary_path = summary_future.result()
PvSummaryResult ==
    /\ pv_pc = "wait_summary"
    /\ future_finished(summary_future)
    /\ pv_pc' = IF summary_future.state = "failed" THEN "unwinding" ELSE "wait_frames"
    /\ UNCHANGED <<text_only, pv_chunks, summary_future, frames_future, pv_writers,
                   pv_overlap, pv_assembly>>
    /\ UNCHANGED notProcessVideoVars

\* chunk_frames = frames_future.result(), and the end of the with block.
PvFramesResult ==
    /\ pv_pc = "wait_frames"
    /\ future_finished(frames_future)
    /\ future_finished(summary_future)
    /\ pv_pc' = IF frames_future.state = "failed" THEN "unwinding" ELSE "joined"
    /\ UNCHANGED <<text_only, pv_chunks, summary_future, frames_future, pv_writers,
                   pv_overlap, pv_assembly>>
    /\ UNCHANGED notProcessVideoVars

\* A result() raised: the with block ends with shutdown(wait=True), then the
\* exception leaves process_video.
PvUnwind ==
    /\ pv_pc = "unwinding"
    /\ future_finished(summary_future)
    /\ future_finished(frames_future)
    /\ pv_pc' = "raised"
    /\ UNCHANGED <<text_only, pv_chunks, summary_future, frames_future, pv_writers,
                   pv_overlap, pv_assembly>>
    /\ UNCHANGED notProcessVideoVars

\* final_md_path = self._generate_final_markdown(summary_path, chunk_texts,
\* chunk_frames, ...)
PvAssemble ==
    /\ pv_pc = "joined"
    /\ pv_assembly' = [state |-> summary_future.state, next |-> 0,
                       frames |-> frames_future.state]
    /\ pv_writers' = wrote(pv_writers, "main", {"final_md"})
    /\ pv_pc' = "done"
    /\ UNCHANGED <<text_only, pv_chunks, summary_future, frames_future, pv_overlap>>
    /\ UNCHANGED notProcessVideoVars

ProcessVideoNext ==
    \/ PvCallSummary
    \/ PvSubmitSummary
    \/ PvSubmitFrames
    \/ SummaryStep
    \/ SummaryFail
    \/ SummaryFinish
    \/ FramesStep
    \/ FramesFail
    \/ FramesFinish
    \/ PvSummaryReturned
    \/ PvSummaryResult
    \/ PvFramesResult
    \/ PvUnwind
    \/ PvAssemble

\* ======================================= _generate_final_markdown ========

\* A mutant of allocate_frame_counts: the frames left after the floors are
\* not handed out.
allocate_frame_counts_floors(secs, total) ==
    IF total <= 0 THEN [i \in DOMAIN secs |-> 0]
    ELSE LET ws == [i \in DOMAIN secs |-> IF secs[i] > 0 THEN secs[i] ELSE 1]
             tw == SumSeq(ws, 1)
         IN  [i \in DOMAIN ws |-> FloatRemainder(total, ws[i], tw).k]

\* self._allocate_frame_counts(sections, len(frames_for_chunk)): the value the
\* call returns.
allocate_frame_counts(secs, total) ==
    IF total <= 0 THEN [i \in DOMAIN secs |-> 0]
    ELSE LET ws == [i \in DOMAIN secs |-> IF secs[i] > 0 THEN secs[i] ELSE 1]
             tw == SumSeq(ws, 1)
             rems == [i \in DOMAIN ws |-> FloatRemainder(total, ws[i], tw)]
             floors == [i \in DOMAIN ws |-> rems[i].k]
             left == total - SumSeq(floors, 1)
             given == IF left > 0 /\ ws /= <<>>
                      THEN LET served == allocation_order(rems, tw)
                           IN  [k \in 0..(left - 1) |-> At(served, k % Len(served))]
                      ELSE <<>>
         IN  [i \in DOMAIN ws |->
                 floors[i] + Cardinality({k \in DOMAIN given : given[k] = i})]

\* frames_for_chunk[frame_cursor:frame_cursor + num_frames]
frame_slice(frames, from, to) ==
    IF from >= Len(frames) THEN <<>>
    ELSE SubSeq(frames, from + 1, Min(to, Len(frames)))

AssembleIdle ==
    /\ part_sections = <<>>
    /\ frames_for_chunk = <<>>
    /\ part_allocations = <<>>
    /\ frame_cursor = 0
    /\ section_idx = 1
    /\ frame_blocks = <<>>
    /\ inserted_by_section = FALSE
    /\ fm_pc = "idle"

\* One part of the summary with its sections and the frames of its chunk,
\* the frames named 1 .. N.
AssembleInit ==
    /\ part_sections \in SeqsUpTo(0..MaxPartWords, MaxPartSections)
    /\ \E n \in 0..MaxPartFrames : frames_for_chunk = [k \in 1..n |-> k]
    /\ part_allocations = <<>>
    /\ frame_cursor = 0
    /\ section_idx = 1
    /\ frame_blocks = <<>>
    /\ inserted_by_section = FALSE
    /\ fm_pc = "part"

\* if frames_for_chunk and len(sections) > 1: allocations, frame_cursor = 0
AssembleAllocate ==
    /\ fm_pc = "part"
    /\ frames_for_chunk /= <<>>
    /\ Len(part_sections) > 1
    /\ part_allocations' = allocate_frame_counts(part_sections, Len(frames_for_chunk))
    /\ frame_cursor' = 0
    /\ section_idx' = 1
    /\ fm_pc' = "sections"
    /\ UNCHANGED <<part_sections, frames_for_chunk, frame_blocks, inserted_by_section>>
    /\ UNCHANGED notAssembleVars

\* One iteration of "for section_idx, section_text in enumerate(sections)".
AssembleSection ==
    /\ fm_pc = "sections"
    /\ section_idx <= Len(part_sections)
    /\ LET num_frames == IF section_idx <= Len(part_allocations)
                         THEN part_allocations[section_idx] ELSE 0
       IN  IF num_frames > 0
           THEN /\ frame_blocks' = Append(frame_blocks,
                       [section |-> section_idx,
                        frames |-> frame_slice(frames_for_chunk, frame_cursor,
                                               frame_cursor + num_frames)])
                /\ frame_cursor' = frame_cursor + num_frames
           ELSE UNCHANGED <<frame_blocks, frame_cursor>>
    /\ section_idx' = section_idx + 1
    /\ UNCHANGED <<part_sections, frames_for_chunk, part_allocations,
                   inserted_by_section, fm_pc>>
    /\ UNCHANGED notAssembleVars

\* The loop over the sections is over: inserted_by_section = True.
AssembleSectionsDone ==
    /\ fm_pc = "sections"
    /\ section_idx > Len(part_sections)
    /\ inserted_by_section' = TRUE
    /\ fm_pc' = "done"
    /\ UNCHANGED <<part_sections, frames_for_chunk, part_allocations, frame_cursor,
                   section_idx, frame_blocks>>
    /\ UNCHANGED notAssembleVars

\* if not inserted_by_section: the frames, if any, go before the whole part.
AssembleWholePart ==
    /\ fm_pc = "part"
    /\ ~(frames_for_chunk /= <<>> /\ Len(part_sections) > 1)
    /\ frame_blocks' = IF frames_for_chunk /= <<>>
                       THEN <<[section |-> 0, frames |-> frames_for_chunk]>>
                       ELSE <<>>
    /\ fm_pc' = "done"
    /\ UNCHANGED <<part_sections, frames_for_chunk, part_allocations, frame_cursor,
                   section_idx, inserted_by_section>>
    /\ UNCHANGED notAssembleVars

AssembleNext ==
    \/ AssembleAllocate
    \/ AssembleSection
    \/ AssembleSectionsDone
    \/ AssembleWholePart

\* ===================================== _generate_summary_with_chunks ======

max_retries == 5

\* What one call of generate_chunk_summary gives: a text, an empty or
\* whitespace-only text (or None), or an exception.
LlmResults == {"text", "blank", "exception"}

\* A mutant of attempt_succeeds: any returned value is taken as a summary.
attempt_succeeds_if_returned(result) == result /= "exception"

\* if summary and summary.strip(), reached when the call did not raise.
attempt_succeeds(result) == result = "text"

SummarizeIdle ==
    /\ test_mode = FALSE
    /\ client_ready = FALSE
    /\ total_chunks = 0
    /\ current_idx = 1
    /\ attempt = 1
    /\ summaries = <<>>
    /\ llm_calls = <<>>
    /\ summary_file = None
    /\ sm_error = ""
    /\ sm_pc = "idle"

SummarizeInit ==
    /\ test_mode \in BOOLEAN
    /\ client_ready \in BOOLEAN
    /\ total_chunks \in 0..MaxSummaryChunks
    /\ current_idx = 1
    /\ attempt = 1
    /\ summaries = <<>>
    /\ llm_calls = <<>>
    /\ summary_file = None
    /\ sm_error = ""
    /\ sm_pc = "call"

\* test_mode: the prompt of every chunk is taken as its summary.
SummarizeTestMode ==
    /\ sm_pc = "call"
    /\ test_mode
    /\ summaries' = [k \in 1..total_chunks |-> k]
    /\ current_idx' = total_chunks + 1
    /\ sm_pc' = "loop"
    /\ UNCHANGED <<test_mode, client_ready, total_chunks, attempt, llm_calls,
                   summary_file, sm_error>>
    /\ UNCHANGED notSummarizeVars

\* No API key, no google-genai, or genai.Client raises.
SummarizeNoClient ==
    /\ sm_pc = "call"
    /\ ~test_mode
    /\ ~client_ready
    /\ sm_error' = "ValueError"
    /\ sm_pc' = "raised"
    /\ UNCHANGED <<test_mode, client_ready, total_chunks, current_idx, attempt,
                   summaries, llm_calls, summary_file>>
    /\ UNCHANGED notSummarizeVars

\* The client is made; for i, chunk in enumerate(chunks) begins.
SummarizeBegin ==
    /\ sm_pc = "call"
    /\ ~test_mode
    /\ client_ready
    /\ current_idx' = 1
    /\ attempt' = 1
    /\ sm_pc' = "loop"
    /\ UNCHANGED <<test_mode, client_ready, total_chunks, summaries, llm_calls,
                   summary_file, sm_error>>
    /\ UNCHANGED notSummarizeVars

\* One iteration of "for attempt in range(1, max_retries + 1)": the call, the
\* test of its result, and the handler of the exception.
SummarizeAttempt ==
    /\ sm_pc = "loop"
    /\ current_idx <= total_chunks
    /\ \E result \in LlmResults :
          /\ llm_calls' = Append(llm_calls, [chunk |-> current_idx,
                                              attempt |-> attempt,
                                              result |-> result])
          /\ IF attempt_succeeds(result)
             THEN /\ summaries' = Append(summaries, current_idx)
                  /\ current_idx' = current_idx + 1
                  /\ attempt' = 1
                  /\ UNCHANGED <<sm_error, sm_pc>>
             ELSE IF attempt < max_retries
             THEN /\ attempt' = attempt + 1
                  /\ UNCHANGED <<summaries, current_idx, sm_error, sm_pc>>
             ELSE /\ sm_error' = "RuntimeError"
                  /\ sm_pc' = "raised"
                  /\ UNCHANGED <<summaries, current_idx, attempt>>
    /\ UNCHANGED <<test_mode, client_ready, total_chunks, summary_file>>
    /\ UNCHANGED notSummarizeVars

\* The loop over the chunks is over: the summary file is written and its
\* path returned.
SummarizeWrite ==
    /\ sm_pc = "loop"
    /\ current_idx > total_chunks
    /\ summary_file' = summaries
    /\ sm_pc' = "done"
    /\ UNCHANGED <<test_mode, client_ready, total_chunks, current_idx, attempt,
                   summaries, llm_calls, sm_error>>
    /\ UNCHANGED notSummarizeVars

SummarizeNext ==
    \/ SummarizeTestMode
    \/ SummarizeNoClient
    \/ SummarizeBegin
    \/ SummarizeAttempt
    \/ SummarizeWrite

\* ================================================ srt_remove_dup.main =====

Ext_srt == <<".", "s", "r", "t">>
Tag_fixed == <<"_", "f", "i", "x", "e", "d">>
Ext_fixed_srt == Tag_fixed \o Ext_srt

\* s.replace(old, new)
RECURSIVE str_replace(_, _, _)
str_replace(s, old, new) ==
    IF Len(s) < Len(old) THEN s
    ELSE IF startswith(s, old) THEN new \o str_replace(Drop(s, Len(old)), old, new)
    ELSE <<Head(s)>> \o str_replace(Tail(s), old, new)

\* new_filename = file_path.replace(".srt", "_fixed.srt")
fixed_name(file_path) == str_replace(file_path, Ext_srt, Ext_fixed_srt)

\* renamed_f = f.replace("_fixed", "")
renamed_name(f) == str_replace(f, Tag_fixed, <<>>)

\* if "_fixed" in f
skipped_as_fixed(f) == Contains(f, Tag_fixed)

\* The names of the files of the directory: plain subtitle files, their
\* "_fixed" companions, a subtitle file with "_fixed" inside its name, a file
\* of another kind; the directory part of the paths holds neither ".srt" nor
\* "_fixed".
SrtStems == {<<<<"a">>, <<"b">>, <<"c">>>>[k] : k \in 1..MaxSrtStems}
Name_inner_fixed == <<"x">> \o Tag_fixed \o <<"y">> \o Ext_srt
Name_other == <<"n", ".", "t", "x", "t">>
InputNames ==
    {stem \o Ext_srt : stem \in SrtStems}
        \cup {stem \o Ext_fixed_srt : stem \in SrtStems}
        \cup {Name_inner_fixed, Name_other}
DirNames == InputNames \cup {renamed_name(n) : n \in InputNames}

\* A file: the name its content was first stored under, whether
\* parse_srt_robust finds a block in it, and whether it was written by
\* process_srt.
NoFile == [exists |-> FALSE, origin |-> <<>>, blocks |-> FALSE, deduplicated |-> FALSE]
InputFileOf(name, has_blocks) ==
    [exists |-> TRUE, origin |-> name, blocks |-> has_blocks, deduplicated |-> FALSE]

\* glob.glob(os.path.join(input_dir, "*" + suffix))
glob(dir, suffix) == {n \in DOMAIN dir : dir[n].exists /\ endswith(n, suffix)}

\* process_srt(file_path) on the directory: nothing is written for a file
\* without blocks.
process_srt(dir, file_path) ==
    IF ~dir[file_path].blocks THEN dir
    ELSE [dir EXCEPT ![fixed_name(file_path)] =
             [exists |-> TRUE, origin |-> dir[file_path].origin,
              blocks |-> TRUE, deduplicated |-> TRUE]]

SrtBatchIdle ==
    /\ input_dir = <<>>
    /\ input_before = <<>>
    /\ glob_files = {}
    /\ sb_pc = "idle"

SrtBatchInit ==
    /\ input_dir \in {dir \in [DirNames -> {NoFile} \cup {InputFileOf(n, b) :
                                                n \in InputNames, b \in BOOLEAN}] :
                         \A n \in DirNames :
                             /\ dir[n].exists => dir[n].origin = n
                             /\ n \notin InputNames => ~dir[n].exists}
    /\ input_before = input_dir
    /\ glob_files = {}
    /\ sb_pc = "call"

\* fixed_files = glob.glob(".../*_fixed.srt")
SrtGlobFixed ==
    /\ sb_pc = "call"
    /\ glob_files' = glob(input_dir, Ext_fixed_srt)
    /\ sb_pc' = "delete_fixed"
    /\ UNCHANGED <<input_dir, input_before>>
    /\ UNCHANGED notSrtBatchVars

\* for f in fixed_files: os.remove(f)
SrtDeleteFixed ==
    /\ sb_pc = "delete_fixed"
    /\ \E f \in glob_files :
          /\ input_dir' = [input_dir EXCEPT ![f] = NoFile]
          /\ glob_files' = glob_files \ {f}
    /\ UNCHANGED <<input_before, sb_pc>>
    /\ UNCHANGED notSrtBatchVars

\* srt_files = glob.glob(".../*.srt"), before the loop that processes.
SrtGlobProcess ==
    /\ sb_pc = "delete_fixed"
    /\ glob_files = {}
    /\ glob_files' = glob(input_dir, Ext_srt)
    /\ sb_pc' = "process"
    /\ UNCHANGED <<input_dir, input_before>>
    /\ UNCHANGED notSrtBatchVars

\* for f in srt_files: if "_fixed" in f: continue; process_srt(f)
SrtProcess ==
    /\ sb_pc = "process"
    /\ \E f \in glob_files :
          /\ input_dir' = IF skipped_as_fixed(f) THEN input_dir
                          ELSE process_srt(input_dir, f)
          /\ glob_files' = glob_files \ {f}
    /\ UNCHANGED <<input_before, sb_pc>>
    /\ UNCHANGED notSrtBatchVars

\* srt_files = glob.glob(".../*.srt"), before the loop that removes.
SrtGlobOriginals ==
    /\ sb_pc = "process"
    /\ glob_files = {}
    /\ glob_files' = glob(input_dir, Ext_srt)
    /\ sb_pc' = "delete_originals"
    /\ UNCHANGED <<input_dir, input_before>>
    /\ UNCHANGED notSrtBatchVars

\* for f in srt_files: if "_fixed" in f: continue; os.remove(f)
SrtDeleteOriginal ==
    /\ sb_pc = "delete_originals"
    /\ \E f \in glob_files :
          /\ input_dir' = IF skipped_as_fixed(f) THEN input_dir
                          ELSE [input_dir EXCEPT ![f] = NoFile]
          /\ glob_files' = glob_files \ {f}
    /\ UNCHANGED <<input_before, sb_pc>>
    /\ UNCHANGED notSrtBatchVars

\* srt_files = glob.glob(".../*.srt"), before the loop that renames.
SrtGlobRename ==
    /\ sb_pc = "delete_originals"
    /\ glob_files = {}
    /\ glob_files' = glob(input_dir, Ext_srt)
    /\ sb_pc' = "rename"
    /\ UNCHANGED <<input_dir, input_before>>
    /\ UNCHANGED notSrtBatchVars

\* for f in srt_files: if "_fixed" in f: os.rename(f, f.replace("_fixed", ""))
SrtRename ==
    /\ sb_pc = "rename"
    /\ \E f \in glob_files :
          /\ input_dir' = IF skipped_as_fixed(f)
                          THEN [input_dir EXCEPT ![renamed_name(f)] = input_dir[f],
                                                 ![f] = NoFile]
                          ELSE input_dir
          /\ glob_files' = glob_files \ {f}
    /\ UNCHANGED <<input_before, sb_pc>>
    /\ UNCHANGED notSrtBatchVars

\* main returns.
SrtReturn ==
    /\ sb_pc = "rename"
    /\ glob_files = {}
    /\ sb_pc' = "done"
    /\ UNCHANGED <<input_dir, input_before, glob_files>>
    /\ UNCHANGED notSrtBatchVars

SrtBatchNext ==
    \/ SrtGlobFixed
    \/ SrtDeleteFixed
    \/ SrtGlobProcess
    \/ SrtProcess
    \/ SrtGlobOriginals
    \/ SrtDeleteOriginal
    \/ SrtGlobRename
    \/ SrtRename
    \/ SrtReturn

\* ================================================ specifications ========

ChunkSpecInit == ChunkInit /\ OverlapIdle /\ DedupIdle /\ AllocIdle /\ FrameIdle /\ FrameDedupIdle /\ SubtitleParserIdle /\ ProcessVideoIdle /\ AssembleIdle /\ SummarizeIdle /\ SrtBatchIdle

ChunkSpec == ChunkSpecInit /\ [][ChunkNext]_vars

\* The loop is sequential code: it keeps running until it returns.
ChunkFairSpec == ChunkSpec /\ WF_vars(ChunkNext)

OverlapSpecInit == OverlapInit /\ ChunkIdle /\ DedupIdle /\ AllocIdle /\ FrameIdle /\ FrameDedupIdle /\ SubtitleParserIdle /\ ProcessVideoIdle /\ AssembleIdle /\ SummarizeIdle /\ SrtBatchIdle

OverlapSpec == OverlapSpecInit /\ [][OverlapNext]_vars

DedupSpecInit == DedupInit /\ ChunkIdle /\ OverlapIdle /\ AllocIdle /\ FrameIdle /\ FrameDedupIdle /\ SubtitleParserIdle /\ ProcessVideoIdle /\ AssembleIdle /\ SummarizeIdle /\ SrtBatchIdle

DedupSpec == DedupSpecInit /\ [][DedupNext]_vars

AllocSpecInit == AllocInit /\ ChunkIdle /\ OverlapIdle /\ DedupIdle /\ FrameIdle /\ FrameDedupIdle /\ SubtitleParserIdle /\ ProcessVideoIdle /\ AssembleIdle /\ SummarizeIdle /\ SrtBatchIdle

AllocSpec == AllocSpecInit /\ [][AllocNext]_vars

FrameSpecInit == FrameInit /\ ChunkIdle /\ OverlapIdle /\ DedupIdle /\ AllocIdle /\ FrameDedupIdle /\ SubtitleParserIdle /\ ProcessVideoIdle /\ AssembleIdle /\ SummarizeIdle /\ SrtBatchIdle

FrameSpec == FrameSpecInit /\ [][FrameNext]_vars

FrameDedupSpecInit == FrameDedupInit /\ ChunkIdle /\ OverlapIdle /\ DedupIdle /\ AllocIdle /\ FrameIdle /\ SubtitleParserIdle /\ ProcessVideoIdle /\ AssembleIdle /\ SummarizeIdle /\ SrtBatchIdle

FrameDedupSpec == FrameDedupSpecInit /\ [][FrameDedupNext]_vars

SubtitleParserSpecInit == SubtitleParserInit /\ ChunkIdle /\ OverlapIdle /\ DedupIdle /\ AllocIdle /\ FrameIdle /\ FrameDedupIdle /\ ProcessVideoIdle /\ AssembleIdle /\ SummarizeIdle /\ SrtBatchIdle

SubtitleParserSpec == SubtitleParserSpecInit /\ [][SubtitleParserNext]_vars

ProcessVideoSpecInit == ProcessVideoInit /\ ChunkIdle /\ OverlapIdle /\ DedupIdle /\ AllocIdle /\ FrameIdle /\ FrameDedupIdle /\ SubtitleParserIdle /\ AssembleIdle /\ SummarizeIdle /\ SrtBatchIdle

ProcessVideoSpec == ProcessVideoSpecInit /\ [][ProcessVideoNext]_vars

AssembleSpecInit == AssembleInit /\ ChunkIdle /\ OverlapIdle /\ DedupIdle /\ AllocIdle /\ FrameIdle /\ FrameDedupIdle /\ SubtitleParserIdle /\ ProcessVideoIdle /\ SummarizeIdle /\ SrtBatchIdle

AssembleSpec == AssembleSpecInit /\ [][AssembleNext]_vars

SummarizeSpecInit == SummarizeInit /\ ChunkIdle /\ OverlapIdle /\ DedupIdle /\ AllocIdle /\ FrameIdle /\ FrameDedupIdle /\ SubtitleParserIdle /\ ProcessVideoIdle /\ AssembleIdle /\ SrtBatchIdle

SummarizeSpec == SummarizeSpecInit /\ [][SummarizeNext]_vars

SrtBatchSpecInit == SrtBatchInit /\ ChunkIdle /\ OverlapIdle /\ DedupIdle /\ AllocIdle /\ FrameIdle /\ FrameDedupIdle /\ SubtitleParserIdle /\ ProcessVideoIdle /\ AssembleIdle /\ SummarizeIdle

SrtBatchSpec == SrtBatchSpecInit /\ [][SrtBatchNext]_vars

\* ---- TextChunker: properties

\* sum over entries of max(1, tokens in entry)
total_tokens == SumSeq(entry_token_counts(subtitle_data), 1)

\* The entry indices that belong to at least one returned chunk.
CoveredEntries ==
    UNION {chunks[k].start_index .. (chunks[k].end_index - 1) : k \in DOMAIN chunks}

\* C1: when the function has returned for n >= 1 entries, the union of the
\* chunks' half-open ranges [start_index, end_index) is [0, n): every entry
\* index is in some chunk.
ChunksCoverAllEntries ==
    (ck_pc = "done" /\ total_entries >= 1)
        => CoveredEntries = 0 .. (total_entries - 1)

\* C2: every chunk after the first starts strictly after the chunk emitted
\* just before it.
ChunkStartsStrictlyIncrease ==
    \A k \in DOMAIN chunks :
        k > 1 => chunks[k].start_index > chunks[k - 1].start_index

\* C2 witness: a finished run that emitted three chunks with a non-zero overlap.
ChunkStartsWitness ==
    /\ ck_pc = "done"
    /\ Len(chunks) >= 3
    /\ overlap > 0

\* C3: the chunking loop terminates, and its body runs at most n times
\* (n = number of entries), so at most n chunks are emitted.
ChunkLoopTerminates ==
    /\ <>(ck_pc = "done")
    /\ [](ck_iters <= total_entries /\ Len(chunks) = ck_iters)

\* C3 witness: the loop has returned after running its body three times.
ChunkLoopWitness ==
    /\ ck_pc = "done"
    /\ ck_iters = 3
    /\ total_entries = MaxChunkEntries

\* C4: a non-empty input whose total token count is <= chunk_size comes back
\* as exactly one chunk, [0, n).
SmallInputSingleChunk ==
    (ck_pc = "done" /\ total_entries >= 1 /\ total_tokens <= chunk_size)
        => chunks = <<[start_index |-> 0, end_index |-> total_entries]>>

\* C4 witness: several entries, fewer tokens in all than the budget, returned
\* as one chunk.
SmallInputWitness ==
    /\ ck_pc = "done"
    /\ total_entries >= 2
    /\ total_tokens < chunk_size
    /\ Len(chunks) = 1

\* ---- get_longest_overlap: properties

\* The lengths L >= 4 for which the last L characters of a are the first L
\* characters of b.
MatchLengths(a, b) ==
    {n \in 4..Min(Len(a), Len(b)) :
        SubSeq(a, Len(a) - n + 1, Len(a)) = SubSeq(b, 1, n)}

Greatest(S) == CHOOSE n \in S : \A m \in S : m <= n

\* C6, as stated: get_longest_overlap("abcdef", "defghi") returns 3 and
\* get_longest_overlap("abc", "xyz") returns 0.
OverlapExamplesAsStated ==
    ov_pc = "done" =>
        /\ (s1 = Str_abcdef /\ s2 = Str_defghi) => overlap_len = 3
        /\ (s1 = Str_abc /\ s2 = Str_xyz) => overlap_len = 0

\* C6, amended: get_longest_overlap("abcdef", "defghi") returns 0 (the common
\* part "def" is shorter than the minimum overlap of 4) and
\* get_longest_overlap("abc", "xyz") returns 0.
OverlapExamplesAmended ==
    ov_pc = "done" =>
        /\ (s1 = Str_abcdef /\ s2 = Str_defghi) => overlap_len = 0
        /\ (s1 = Str_abc /\ s2 = Str_xyz) => overlap_len = 0

\* C6 witness: the call on ("abcdef", "defghi") has returned.
OverlapExamplesWitness ==
    /\ ov_pc = "done"
    /\ s1 = Str_abcdef
    /\ s2 = Str_defghi

\* C7: get_longest_overlap returns the greatest L with 4 <= L <= min(len(s1),
\* len(s2)) such that the last L characters of s1 are the first L of s2, and 0
\* when there is none; it never returns 1, 2 or 3.
LongestOverlapIsGreatestMatch ==
    ov_pc = "done" =>
        /\ MatchLengths(s1, s2) = {} => overlap_len = 0
        /\ MatchLengths(s1, s2) /= {} => overlap_len = Greatest(MatchLengths(s1, s2))
        /\ overlap_len \notin {1, 2, 3}

\* C7 witness: several lengths match (4 and 5 among them, and a match of
\* length 3 too); the call returned the greatest.
LongestOverlapWitness ==
    /\ ov_pc = "done"
    /\ {4, 5} \subseteq MatchLengths(s1, s2)
    /\ SubSeq(s1, Len(s1) - 2, Len(s1)) = SubSeq(s2, 1, 3)
    /\ overlap_len = 5
    /\ Len(s1) > 5
    /\ Len(s2) > 5

\* ---- SubtitleDeduplicator: properties

Str_hello_world == Word_hello \o Word_world
Str_world_peace == Word_world \o Word_peace
Str_peace == <<"p", "e", "a", "c", "e">>

\* No entry of out begins with 4 or more characters that end the entry before it.
NoResidualOverlap(out) ==
    \A k \in 1..(Len(out) - 1) : MatchLengths(out[k].text, out[k + 1].text) = {}

\* C5, as stated: the deduplication loop run on its own output returns that
\* output unchanged.
DedupIdempotent ==
    (dd_pc = "done" /\ dd_pass = 2) => final_blocks = first_output

\* C5, amended: the loop run on its own output returns that output unchanged
\* exactly when no entry of that output still begins with 4 or more characters
\* that end the entry before it; when one does, the second run shortens or
\* discards it.
DedupIdempotentIffNoResidual ==
    (dd_pc = "done" /\ dd_pass = 2) =>
        (final_blocks = first_output <=> NoResidualOverlap(first_output))

\* C5 witness: a first run that removed an overlap from the second of two
\* entries, and a second run that returned the first run's output unchanged.
DedupIdempotentWitness ==
    /\ dd_pc = "done"
    /\ dd_pass = 2
    /\ Len(dd_input) = 2
    /\ Len(first_output) = 2
    /\ first_output[2].text /= strip(dd_input[2])
    /\ final_blocks = first_output

\* The file is two well-formed blocks and the first block's text ends with
\* the first L >= 4 characters of the second's, for some L.
TwoOverlappingBlocks ==
    /\ Len(dd_input) = 2
    /\ MatchLengths(dd_input[1], dd_input[2]) /= {}

HelloWorldExample ==
    (dd_input = <<Str_hello_world, Str_world_peace>>)
        => /\ Len(final_blocks) = 2
           /\ final_blocks[2].text = Str_peace

\* C8, as stated: for every L >= 4 such that the first block's text ends with
\* the first L characters of the second block's text, deduplication yields two
\* entries, the second being the second text without its first L characters,
\* trimmed; "hello world" / "world peace" gives "peace".
TwoBlockDedupAsStated ==
    (dd_pc = "done" /\ dd_pass = 1 /\ TwoOverlappingBlocks) =>
        /\ \A n \in MatchLengths(dd_input[1], dd_input[2]) :
              /\ Len(final_blocks) = 2
              /\ final_blocks[2].text = strip(Drop(dd_input[2], n))
        /\ HelloWorldExample

\* A text line the parser takes as dialogue: not purely numeric and not a
\* timestamp line.
IsDialogue(t) == ~isdigit(strip(t)) /\ ~is_timecode(strip(t))

\* C8, amended: for two well-formed blocks whose text lines t1, t2 (trimmed)
\* are neither purely numeric nor timestamp lines, with L the GREATEST length
\* >= 4 such that t1 ends with the first L characters of t2: if t2 without its
\* first L characters, trimmed, has more than one character, deduplication
\* yields two entries, t1 and that remainder; otherwise it yields the first
\* entry only.  "hello world" / "world peace" gives "peace".
TwoBlockDedupAmended ==
    (dd_pc = "done" /\ dd_pass = 1 /\ Len(dd_input) = 2) =>
        LET t1 == strip(dd_input[1])
            t2 == strip(dd_input[2])
        IN  /\ (IsDialogue(t1) /\ IsDialogue(t2) /\ MatchLengths(t1, t2) /= {}) =>
                  LET rest == strip(Drop(t2, Greatest(MatchLengths(t1, t2))))
                  IN  IF Len(rest) > 1
                      THEN /\ Len(final_blocks) = 2
                           /\ final_blocks[1].text = t1
                           /\ final_blocks[2].text = rest
                      ELSE /\ Len(final_blocks) = 1
                           /\ final_blocks[1].text = t1
            /\ HelloWorldExample

\* C8 witness: the first run on the "hello world" / "world peace" file has
\* returned, with "peace" as the second entry.
TwoBlockDedupWitness ==
    /\ dd_pc = "done"
    /\ dd_pass = 1
    /\ dd_input = <<Str_hello_world, Str_world_peace>>
    /\ Len(final_blocks) = 2
    /\ final_blocks[2].text = Str_peace

\* ---- ChunkFrameAllocator: properties

\* C10, as stated: section weights [10, 5, 5] and total_frames = 7 give
\* [4, 2, 1].
AllocExampleAsStated ==
    (al_pc = "done" /\ sections = <<10, 5, 5>> /\ total_frames = 7)
        => allocations = <<4, 2, 1>>

\* C10, amended: section weights [10, 5, 5] and total_frames = 7 give
\* [3, 2, 2]: the floor allocation is [3, 1, 1] and the two frames left go to
\* the sections with the largest remainders, 0.75 (sections 2 and 3) against
\* 0.5 (section 1).
AllocExampleAmended ==
    (al_pc = "done" /\ sections = <<10, 5, 5>> /\ total_frames = 7)
        => allocations = <<3, 2, 2>>

\* C10 witness: the call for weights [10, 5, 5] and 7 frames has returned,
\* after a floor allocation that left two frames to distribute.
AllocExampleWitness ==
    /\ al_pc = "done"
    /\ sections = <<10, 5, 5>>
    /\ total_frames = 7
    /\ al_idx = 2
    /\ order = <<2, 3, 1>>

\* C11: for M >= 1 sections and total_frames N >= 0, _allocate_frame_counts
\* returns M non-negative integers whose sum is exactly N.
AllocationsSumToTotal ==
    (al_pc = "done" /\ Len(sections) >= 1) =>
        /\ Len(allocations) = Len(sections)
        /\ \A i \in DOMAIN allocations : allocations[i] \in Nat
        /\ SumSeq(allocations, 1) = total_frames

\* C11 witness: a call for three sections of different sizes has returned
\* after the floor allocation left frames to hand out in the loop.
AllocationsSumWitness ==
    /\ al_pc = "done"
    /\ Len(sections) = 3
    /\ sections[1] /= sections[2]
    /\ total_frames = MaxAllocFrames
    /\ al_idx >= 2
    /\ remaining = 0

\* ---- FrameSampler: properties

\* A completed call in fallback mode (skip_similar = False) with a stride of
\* 1 second over a 5-second window, every read having delivered a frame.
FallbackFiveSecondRun ==
    /\ fr_pc = "returned"
    /\ ~read_failed
    /\ ~skip_similar
    /\ interval_ticks = TicksPerSecond
    /\ end_ticks - start_ticks = 5 * TicksPerSecond

AllPrimary == \A i \in DOMAIN extracted_files : extracted_files[i].kind = "main"

\* C9, as stated: fallback mode with a stride of 1 second over a 5-second
\* window saves exactly 5 frames, all Primary.
FallbackSavesFiveFrames ==
    FallbackFiveSecondRun => (Len(extracted_files) = 5 /\ AllPrimary)

\* C9, amended: at a whole frame rate of at least 1 frame per second,
\* fallback mode with a stride of 1 second over a 5-second window saves
\* exactly 6 frames, all Primary: the frames at start_time + 0, 1, 2, 3, 4
\* and 5 seconds, both ends of the window included.
FallbackSavesSixFrames ==
    (FallbackFiveSecondRun /\ fps >= 1) =>
        /\ Len(extracted_files) = 6
        /\ AllPrimary
        /\ \A i \in DOMAIN extracted_files :
              /\ extracted_files[i].count = i - 1
              /\ extracted_files[i].timestamp =
                    time_of_ticks(start_ticks, fps) + time_of_seconds(i - 1, fps)

\* C9 witness: such a run has returned at 2 frames per second from a start
\* time of half a second, having walked all the frames of the window.
FallbackRunWitness ==
    /\ FallbackFiveSecondRun
    /\ fps = 2
    /\ start_ticks = 1
    /\ frame_count = 11
    /\ extracted_files /= <<>>

\* C15: a call of extract_frames_in_range raises only when the source cannot
\* be opened, and then no frame was saved; with an opened source it returns
\* normally, and a failed read ends the walk with a normal return of the
\* frames saved so far.
FrameCallEndsAsStated ==
    /\ fr_pc = "raised" => (~fr_opened /\ extracted_files = <<>>)
    /\ read_failed => fr_pc = "returned"

\* ---- FrameDeduplicator: properties

\* q is an order-preserving sub-sequence of r (greedy matching).
RECURSIVE IsSubSeq(_, _)
IsSubSeq(q, r) ==
    IF q = <<>> THEN TRUE
    ELSE IF r = <<>> THEN FALSE
    ELSE IF Head(q) = Head(r) THEN IsSubSeq(Tail(q), Tail(r))
    ELSE IsSubSeq(q, Tail(r))

\* The positions of frame_paths whose file exists and can be read.
LoadablePositions ==
    {i \in DOMAIN frame_paths :
        disk[frame_paths[i]].exists /\ disk[frame_paths[i]].image \in GrayLevels}

\* C12, as stated: for a non-empty input list the output keeps the first
\* frame of the list and is an order-preserving sub-sequence of the input,
\* never larger than it.
FirstFrameKept ==
    (fd_pc = "done" /\ frame_paths /= <<>>) =>
        /\ deduped /= <<>>
        /\ deduped[1] = frame_paths[1]
        /\ Len(deduped) <= Len(frame_paths)
        /\ IsSubSeq(deduped, frame_paths)

\* C12, amended: the output is an order-preserving sub-sequence of the
\* input, never larger than it, and it starts with the first path of the
\* list whose file exists and can be read as an image; it is empty when the
\* list has no such path.  The first frame of the list is kept exactly when
\* its file can be loaded.
FirstLoadableFrameKept ==
    fd_pc = "done" =>
        /\ Len(deduped) <= Len(frame_paths)
        /\ IsSubSeq(deduped, frame_paths)
        /\ LoadablePositions = {} => deduped = <<>>
        /\ LoadablePositions /= {} =>
              /\ deduped /= <<>>
              /\ \E i \in LoadablePositions :
                    /\ \A j \in LoadablePositions : i <= j
                    /\ deduped[1] = frame_paths[i]

\* C12 witness: a call has returned for a list whose first file is missing
\* and whose later files are images, one of them dropped as a duplicate.
FirstLoadableWitness ==
    /\ fd_pc = "done"
    /\ Len(frame_paths) = 3
    /\ disk[frame_paths[1]] = Missing
    /\ Len(deduped) = 1
    /\ fd_last = "duplicate"

\* ---- SubtitleParser: properties

\* What the inner loop of parse_subtitles finds in block k of the file.
ScannedBlock(k) ==
    scan_block(split(strip(subtitle_blocks(file_content)[k]), <<NL>>), 1, <<>>, <<>>)

\* The blocks of the file that have a line matching the timestamp pattern
\* and a non-empty text.
BlocksWithTimeAndText ==
    {k \in DOMAIN subtitle_blocks(file_content) :
        /\ ScannedBlock(k).time_match /= <<>>
        /\ join(ScannedBlock(k).dialogue_lines, <<" ">>) /= <<>>}

\* C13: every entry returned by parse_subtitles has non-empty text and comes
\* from a block with a timestamp line; blocks without a timestamp line or
\* with empty text produce no entry, so there are exactly as many entries as
\* blocks with a timestamp line and non-empty text.
EntriesHaveTimeAndText ==
    ps_pc = "done" =>
        /\ \A k \in DOMAIN subtitle_entries : subtitle_entries[k].text /= <<>>
        /\ Len(subtitle_entries) = Cardinality(BlocksWithTimeAndText)

\* C14: for an empty subtitle file parse_subtitles and parse_srt_robust both
\* return an empty entry sequence (and the text of parse_subtitles is empty).
EmptyFileGivesNoEntries ==
    file_content = <<>> =>
        /\ ps_pc = "done" => (subtitle_entries = <<>> /\ consolidated_text = <<>>)
        /\ pr_pc = "done" => robust_blocks = <<>>

\* C14 witness: both parsers have returned for the empty file.
EmptyFileWitness ==
    /\ file_content = <<>>
    /\ ps_pc = "done"
    /\ pr_pc = "done"
    /\ subtitle_blocks(file_content) = <<<<>>>>
    /\ readlines(file_content) = <<>>

\* ---- process_video: properties

\* C16: with text_only = False the two tasks run concurrently, no object is
\* written by both of them, and _generate_final_markdown starts only when
\* both tasks have completed.
ForkJoinBeforeAssembly ==
    ~text_only =>
        /\ \A o \in PvObjects :
              ~({"summary_worker", "frames_worker"} \subseteq pv_writers[o])
        /\ pv_pc = "done" =>
              (pv_assembly.state = "done" /\ pv_assembly.frames = "done")
        /\ pv_pc \in {"joined", "done"} =>
              (summary_future.state = "done" /\ frames_future.state = "done")

\* C16 witness: the final markdown was assembled after two tasks that each
\* worked on chunks while the other was running.
ForkJoinWitness ==
    /\ ~text_only
    /\ pv_pc = "done"
    /\ pv_chunks = MaxVideoChunks
    /\ pv_overlap
    /\ pv_writers["summaries"] = {"summary_worker"}
    /\ pv_writers["chunk_frames"] = {"frames_worker"}

\* ---- deduplicator: entry count and time values

BlockTimes == [k \in DOMAIN blocks |-> blocks[k].time]

\* The time lines of the written file, one per entry of four lines.
WrittenTimes == [k \in 1..(Len(file_lines) \div 4) |-> file_lines[4 * k - 2]]

\* C17: the deduplicator's output has at most as many entries as its input,
\* and the time values of the output, as kept in final_blocks and as written
\* to the file, are an order-preserving subsequence of the input's time values.
DedupKeepsTimes ==
    dd_pc = "done" =>
        /\ Len(final_blocks) <= Len(blocks)
        /\ IsSubSeq([k \in DOMAIN final_blocks |-> final_blocks[k].time], BlockTimes)
        /\ Len(file_lines) = 4 * Len(final_blocks)
        /\ IsSubSeq(WrittenTimes, BlockTimes)

\* C17 witness: of three blocks the second was dropped, and the third was
\* kept under its own time with a text that lost its overlap.
DedupKeepsTimesWitness ==
    /\ dd_pc = "done"
    /\ dd_pass = 1
    /\ Len(blocks) = 3
    /\ Len(final_blocks) = 2
    /\ WrittenTimes = <<blocks[1].time, blocks[3].time>>
    /\ final_blocks[2].text /= strip(join_space(blocks[3].text_lines))

\* ---- FrameSampler: the adaptive decision

\* The loop body runs on a frame that lands on the stride, in adaptive mode.
StridedAdaptiveStep ==
    /\ fr_pc = "loop"
    /\ frame_count' = frame_count + 1
    /\ skip_similar
    /\ frame_count % frame_interval = 0

SavedAs(kind) ==
    /\ Len(extracted_files') = Len(extracted_files) + 1
    /\ SubSeq(extracted_files', 1, Len(extracted_files)) = extracted_files
    /\ extracted_files'[Len(extracted_files')].kind = kind
    /\ extracted_files'[Len(extracted_files')].frame = start_frame + frame_count

SavedTimesInWindow ==
    /\ \A k \in DOMAIN extracted_files :
          /\ time_of_ticks(start_ticks, fps) <= extracted_files[k].timestamp
          /\ extracted_files[k].timestamp <= time_of_ticks(end_ticks, fps)
    /\ \A j, k \in DOMAIN extracted_files :
          j < k => extracted_files[j].timestamp < extracted_files[k].timestamp

\* C20: in adaptive and in fallback mode every saved frame has a time between
\* start_time and end_time, the times increase strictly in the order of the
\* saves, and nothing is saved once the loop was left: because the time of a
\* frame was past end_time, because a read failed, or otherwise.
SavesStayInWindow ==
    /\ []SavedTimesInWindow
    /\ [][(fr_pc \in {"returned", "raised"} \/ read_failed)
             => extracted_files' = extracted_files]_vars
    /\ [][(fr_pc = "loop" /\ fr_pc' = "returned")
             => extracted_files' = extracted_files]_vars

\* C20 witness: the call returned because the time of the frame read was past
\* end_time, with several frames saved, the first at start_time.
SavesStayInWindowWitness ==
    /\ fr_pc = "returned"
    /\ ~read_failed
    /\ loop_continues(frame_count, start_frame, end_frame)
    /\ Len(extracted_files) >= 2
    /\ extracted_files[1].timestamp = time_of_ticks(start_ticks, fps)

\* ---- deduplicator: short texts

\* C21: no entry of the deduplicator's output, the first one included, has a
\* text shorter than 2 characters.
NoShortOutputText ==
    dd_pc = "done" =>
        \A k \in DOMAIN final_blocks : Len(final_blocks[k].text) >= 2

\* ---- deduplicator: prev_text

LastKeptText ==
    IF final_blocks = <<>> THEN <<>> ELSE final_blocks[Len(final_blocks)].text

\* C22: during the deduplication loop prev_text is the text of the entry kept
\* last, as it was emitted; an iteration that keeps no entry leaves prev_text
\* unchanged, and the overlap of an entry is computed against the text kept
\* last.
PrevTextIsLastKept ==
    /\ [](dd_pc \in {"loop", "done"} => prev_text = LastKeptText)
    /\ [][(dd_pc = "loop" /\ dd_next' = dd_next + 1)
            => LET raw == strip(join_space(blocks[dd_next].text_lines))
                   n == get_longest_overlap(LastKeptText, raw)
                   rest == IF n > 0 THEN strip(Drop(raw, n)) ELSE raw
               IN  IF final_blocks = <<>>
                   THEN prev_text' = raw
                   ELSE IF Len(final_blocks') > Len(final_blocks)
                   THEN /\ prev_text' = rest
                        /\ final_blocks'[Len(final_blocks')].text = rest
                   ELSE /\ prev_text' = prev_text
                        /\ Len(rest) <= 1]_vars

\* C22 witness: the second of three entries was kept without its overlap, so
\* that prev_text differs from its raw text, and the third was discarded
\* against it.
PrevTextWitness ==
    /\ dd_pc = "loop"
    /\ dd_pass = 1
    /\ Len(blocks) = 3
    /\ dd_next = 4
    /\ Len(final_blocks) = 2
    /\ final_blocks[2].time = blocks[2].time
    /\ prev_text = final_blocks[2].text
    /\ prev_text /= strip(join_space(blocks[2].text_lines))

\* ---- parse_srt_robust: text lines and blocks

\* The lines of the file, stripped.
RobustLines ==
    LET lines == readlines(file_content)
    IN  [i \in DOMAIN lines |-> strip(lines[i])]

\* The positions of the timestamp lines among the stripped lines L.
TimecodePositionsOf(L) == {i \in DOMAIN L : is_timecode(L[i])}

TimecodePositions == TimecodePositionsOf(RobustLines)

\* Line i of L is non-blank, not purely numeric and not a timestamp line, a
\* timestamp line precedes it and the line after it is not a timestamp line
\* (T holds the positions of the timestamp lines).
IsAppendedLine(L, T, i) ==
    /\ L[i] /= <<>>
    /\ ~isdigit(L[i])
    /\ i \notin T
    /\ \E t \in T : t < i
    /\ (i + 1) \notin T

\* The appended lines among the lines i .. last, in order.
RECURSIVE AppendedLines(_, _, _, _)
AppendedLines(L, T, i, last) ==
    IF i > last THEN <<>>
    ELSE (IF IsAppendedLine(L, T, i) THEN <<L[i]>> ELSE <<>>)
             \o AppendedLines(L, T, i + 1, last)

\* The last line of the block opened by the timestamp line t.
BlockEnd(L, T, t) ==
    LET later == {u \in T : u > t}
    IN  IF later = {} THEN Len(L)
        ELSE (CHOOSE u \in later : \A v \in later : u <= v) - 1

\* C23: parse_srt_robust returns one block per timestamp line, in order, each
\* closed by the next timestamp line or the end of the input; the text of a
\* block is made of the lines between that are non-blank, not purely numeric
\* and not followed by a timestamp line; such lines before the first
\* timestamp line or directly before a timestamp line are dropped.
RobustTextLines ==
    pr_pc = "done" =>
        LET L == RobustLines
            T == TimecodePositionsOf(L)
        IN  /\ Len(robust_blocks) = Cardinality(T)
            /\ \A t \in T :
                  LET k == Cardinality({u \in T : u <= t})
                  IN  /\ robust_blocks[k].time = L[t]
                      /\ robust_blocks[k].text_lines
                             = AppendedLines(L, T, t + 1, BlockEnd(L, T, t))

\* C23 witness: of two text lines between two timestamp lines the first was
\* appended to the first block and the second, directly before the second
\* timestamp line, was dropped.
RobustTextLinesWitness ==
    /\ pr_pc = "done"
    /\ Len(RobustLines) = 4
    /\ TimecodePositions = {1, 4}
    /\ \A i \in {2, 3} : RobustLines[i] /= <<>> /\ ~isdigit(RobustLines[i])
    /\ Len(robust_blocks) = 2
    /\ robust_blocks[1].text_lines = <<RobustLines[2]>>
    /\ robust_blocks[2].text_lines = <<>>

\* ---- FrameDeduplicator: the decision on a candidate

\* The similarity of two gray images reaches the threshold.
ReachesThreshold(g, h) ==
    100 * (max_pixel * max_pixel - (g - h) * (g - h))
        >= similarity_threshold * max_pixel * max_pixel

KeptImages == [k \in DOMAIN deduped |-> disk[deduped[k]].image]

SectionWeights == [i \in DOMAIN sections |-> IF sections[i] > 0 THEN sections[i] ELSE 1]

\* The allocation by floors and largest fractional remainders, ties to the
\* smaller index, in exact arithmetic: the remainder of section i is
\* ((N * w_i) % W) / W.
LargestRemainderAllocation ==
    LET w == SectionWeights
        total == SumSeq(w, 1)
        floors == [i \in DOMAIN w |-> (total_frames * w[i]) \div total]
        rem == [i \in DOMAIN w |-> (total_frames * w[i]) % total]
        extra == total_frames - SumSeq(floors, 1)
        before(i) == {j \in DOMAIN w : rem[j] > rem[i] \/ (rem[j] = rem[i] /\ j < i)}
    IN  [i \in DOMAIN w |->
            floors[i] + (IF Cardinality(before(i)) < extra THEN 1 ELSE 0)]

\* C25: for N > 0 frames every section gets floor(N * w_i / W) frames or one
\* more; the N - sum(floor) extra frames go to the sections with the largest
\* fractional remainders of N * w_i / W, among equal remainders to the
\* section with the smaller index.
ExtrasToLargestRemainders ==
    (al_pc = "done" /\ total_frames > 0 /\ sections /= <<>>)
        => allocations = LargestRemainderAllocation

\* ---- _generate_final_markdown: properties

RECURSIVE FramesWritten(_)
FramesWritten(k) ==
    IF k > Len(frame_blocks) THEN <<>>
    ELSE frame_blocks[k].frames \o FramesWritten(k + 1)

\* C26: for a chunk with N >= 1 frames and a part with M > 1 sections, the
\* sections get consecutive slices of the frame list, in order, whose lengths
\* are the allocation counts: the slices together are the frame list, so no
\* frame is left out and none is used twice.
FramesSlicedOnce ==
    (fm_pc = "done" /\ Len(frames_for_chunk) >= 1 /\ Len(part_sections) > 1)
        => /\ inserted_by_section
           /\ FramesWritten(1) = frames_for_chunk
           /\ \A k \in DOMAIN frame_blocks :
                 /\ frame_blocks[k].section \in DOMAIN part_sections
                 /\ Len(frame_blocks[k].frames)
                        = part_allocations[frame_blocks[k].section]
                 /\ k > 1 => frame_blocks[k - 1].section < frame_blocks[k].section
           /\ \A i \in DOMAIN part_sections :
                 part_allocations[i] > 0
                     => \E k \in DOMAIN frame_blocks : frame_blocks[k].section = i

\* C26 witness: four frames went to three sections, two of them to one
\* section and none of them to another.
FramesSlicedWitness ==
    /\ fm_pc = "done"
    /\ Len(part_sections) = 3
    /\ Len(frames_for_chunk) = 4
    /\ Len(frame_blocks) = 2
    /\ \E k \in DOMAIN frame_blocks : Len(frame_blocks[k].frames) = 2

\* ---- TextChunker: the entries two consecutive chunks share

\* The tokens of the entries with the 0-based indices first .. last - 1.
RECURSIVE TokensOfEntries(_, _)
TokensOfEntries(first, last) ==
    IF first >= last THEN 0
    ELSE Max(1, At(subtitle_data, first)) + TokensOfEntries(first + 1, last)

\* C27: the entries that two consecutive chunks share, those with an index
\* from the start_index of the later chunk up to the end_index of the earlier
\* one, have at most overlap tokens in all; with overlap = 0 they share none.
SharedEntriesWithinOverlap ==
    \A k \in DOMAIN chunks :
        k > 1 =>
            /\ TokensOfEntries(chunks[k].start_index, chunks[k - 1].end_index)
                   <= overlap
            /\ overlap = 0 => chunks[k].start_index >= chunks[k - 1].end_index

\* C27 witness: a finished run in which two consecutive chunks share two
\* entries whose tokens use the overlap up.
SharedEntriesWitness ==
    /\ ck_pc = "done"
    /\ overlap > 0
    /\ \E k \in DOMAIN chunks :
          /\ k > 1
          /\ chunks[k].start_index + 2 = chunks[k - 1].end_index
          /\ TokensOfEntries(chunks[k].start_index, chunks[k - 1].end_index) = overlap

\* ---- FrameSampler: the scores of secondary frames

\* The files saved as secondary frames, by their position in extracted_files.
SecondaryFiles == {k \in DOMAIN extracted_files : extracted_files[k].kind = "aux"}

CallsOfChunk(c) == SelectSeq(llm_calls, LAMBDA call : call.chunk = c)

\* The chunks of which a call returned a text that is not blank.
SummarizedChunks == {c \in 1..total_chunks :
                        \E k \in DOMAIN llm_calls :
                            llm_calls[k].chunk = c /\ llm_calls[k].result = "text"}

AttemptsAsStated ==
    /\ \A k \in DOMAIN llm_calls :
          /\ k > 1 => llm_calls[k - 1].chunk <= llm_calls[k].chunk
          /\ llm_calls[k].attempt <= 5
          /\ llm_calls[k].result = "text"
                => /\ k = Len(llm_calls) \/ llm_calls[k + 1].chunk = llm_calls[k].chunk + 1
                   /\ Cardinality({j \in DOMAIN summaries :
                                       summaries[j] = llm_calls[k].chunk}) = 1
          /\ (llm_calls[k].result /= "text" /\ llm_calls[k].attempt < 5 /\ k < Len(llm_calls))
                => /\ llm_calls[k + 1].chunk = llm_calls[k].chunk
                   /\ llm_calls[k + 1].attempt = llm_calls[k].attempt + 1
          /\ (llm_calls[k].result /= "text" /\ llm_calls[k].attempt = 5)
                => /\ k = Len(llm_calls)
                   /\ sm_pc = "raised"
                   /\ sm_error = "RuntimeError"
                   /\ summary_file = None
    /\ \A c \in 1..total_chunks :
          LET calls == CallsOfChunk(c)
          IN  /\ \A a \in DOMAIN calls : calls[a].attempt = a
              /\ calls /= <<>> => \A b \in 1..(c - 1) : b \in SummarizedChunks
    /\ Len(summaries) = Cardinality(SummarizedChunks)
    /\ \A j \in DOMAIN summaries : summaries[j] = j /\ j \in SummarizedChunks
    /\ sm_pc = "done" => (summary_file = summaries /\ Len(summaries) = total_chunks)
    /\ sm_pc = "raised" => summary_file = None

\* C29: outside test mode the chunks are summarized in order; a chunk's call
\* is attempted at most 5 times, an exception and a blank result each being
\* a failed attempt; the first result that is not blank ends the attempts of
\* its chunk and appends one summary; after 5 failed attempts of a chunk a
\* RuntimeError is raised, no later chunk is attempted and no summary file
\* is written.
SummaryAttemptsBounded == ~test_mode => AttemptsAsStated

\* C29 witness: the first chunk was summarized at its fifth attempt, after a
\* blank result and an exception; the second chunk failed five times and the
\* call raised.
SummaryAttemptsWitness ==
    /\ ~test_mode
    /\ sm_pc = "raised"
    /\ total_chunks = 2
    /\ summaries = <<1>>
    /\ Len(llm_calls) = 10
    /\ llm_calls[5].result = "text"
    /\ llm_calls[1].result = "blank"
    /\ llm_calls[2].result = "exception"

\* ---- srt_remove_dup.main: properties

\* The subtitle files of the directory before the run that are not
\* "*_fixed.srt" files.
InputSubtitles ==
    {n \in DOMAIN input_before :
        /\ input_before[n].exists
        /\ endswith(n, Ext_srt)
        /\ ~endswith(n, Ext_fixed_srt)}

\* C30: when main has returned, every subtitle file that was in the input
\* directory before the run, "*_fixed.srt" files aside, exists under its
\* name and holds the deduplicated version of its content.
EveryInputReplaced ==
    sb_pc = "done" =>
        \A n \in InputSubtitles :
            /\ input_dir[n].exists
            /\ input_dir[n].origin = n
            /\ input_dir[n].deduplicated

====
